---------------------------- MODULE Spec2Model ----------------------------
(***************************************************************************)
(* A model of the crogia backend control plane:                            *)
(*   - the session store        (backend/agent_platform.py, 163-279)       *)
(*   - the process registry     (backend/agent_platform.py, 315-399)       *)
(*   - the terminal bridge      (backend/main.py, 45-245 and 1001-1161)    *)
(*   - the session fan-out      (backend/main.py, 248-291 and 699-735)     *)
(*   - command execution        (backend/agent_platform.py, 284-310)       *)
(*   - the tools and endpoints  (backend/agent_platform.py, 340-482)       *)
(*   - concurrent store writers (backend/agent_platform.py, 163-188,       *)
(*                               318-335)                                  *)
(* Every handler is one action, except where the handler suspends at an    *)
(* await: there it is cut into the steps the asyncio event loop runs       *)
(* atomically.  What lies outside the program (the container runtime, the  *)
(* file system, the bridge processes, the remote end of a websocket) is    *)
(* modelled by environment actions and by the outcome each call can have.  *)
(***************************************************************************)
EXTENDS Integers, Sequences, FiniteSets, TLC

\* ------------------------------------------------------------------ bounds
MaxContainers == 2      \* containers the runtime creates in one behaviour
MaxPid        == 2      \* pids the sandbox hands out, 1..MaxPid
MaxTime       == 4      \* readings of datetime.utcnow() in one behaviour
MaxRecords    == 3      \* records appended to one registry
MaxShells     == 1      \* ShellSession objects made in one behaviour
MaxConns      == 2      \* connections made to the shell websocket
MaxOut        == 1      \* chunks a pseudo-terminal holds unread
MaxInbox      == 1      \* messages a connection holds unreceived
MaxSubs       == 2      \* connections made to the session websocket
MaxBroadcasts == 2      \* send_message calls made in one behaviour
MaxChunks     == 2      \* chunks the output stream of one exec yields
MaxChunkLen   == 2      \* bytes in one chunk of a tty stream
MaxPathLen    == 2      \* components in the path argument of a file call
MaxFiles      == 2      \* files the file calls make in one behaviour
MaxWriters    == 2      \* writers at work on one registry file
MaxTexts      == 2      \* text messages the remote end of one connection sends

\* ------------------------------------------------------------ sample values
SessionIds == {"a1", "b2"}       \* values of uuid.uuid4().hex[:8]
ContainerIds == 1..MaxContainers
Payloads == {<< >>, <<"m">>}     \* conversation payloads, << >> is []
Tasks == {"t1", "t2"}
Pids == 1..MaxPid
Cmds == {"sleep", "serve"}
ShellIds == {"shell_1", "shell_2"}   \* values of "shell_" + uuid4().hex[:8]
MsgTypes == {"shell_input", "shell_resize", "other"}
WriterIds == 1..MaxWriters

\* A dict with no key; TLC takes the empty tuple for the empty function.
EmptyMap == << >>

Put(m, k, v) == [x \in DOMAIN m \cup {k} |-> IF x = k THEN v ELSE m[x]]

Del(m, k) == [x \in DOMAIN m \ {k} |-> m[x]]

Restrict(m, S) == [x \in DOMAIN m \cap S |-> m[x]]

NoOp == [op |-> "none"]

VARIABLES
    ACTIVE_SESSIONS,  \* agent_platform.ACTIVE_SESSIONS: session id -> record
    SESSIONS_FILE,    \* what active_sessions.json holds: session id -> record
    fileExists,       \* SESSIONS_FILE.exists()
    containers,       \* the runtime: container id -> "running" | "exited"
    nextContainer,    \* the id the runtime gives the next container
    workdirs,         \* session ids whose workspace directory exists
    sessLast,         \* the session-store call the last step made, its result
    registry,         \* .processes.json of one workspace: a list of records
    procsAlive,       \* pids of the processes alive in the sandbox
    now,              \* the clock datetime.utcnow() reads
    nextLog,          \* the next uuid4().hex a log file is named by
    regLast,          \* the registry call the last step made, its result
    shells,           \* the ShellSession objects, in the order of creation
    ACTIVE_SHELLS,    \* main.ACTIVE_SHELLS: shell id -> its ShellSession
    shell_connections,\* manager.shell_connections: shell id -> connection
    conns,            \* the websocket connections made to /ws/shells/{id}
    loopHeld,         \* the connection whose os.read blocks the event loop
    shellLast,        \* the shell endpoint call the last step made
    active_connections, \* manager.active_connections: session id -> list
    subs,             \* the websocket connections made to /ws/{session_id}
    bcast,            \* the send_message call in progress, NoOp when none
    nBroadcasts,      \* the send_message calls made so far
    fanLast,          \* the fan-out call the last step completed
    execCall,         \* the stream_exec call in progress: its command, its pc
    stream,           \* the chunks exec_start's stream has yet to yield
    captured,         \* stream_exec's list captured
    stdout,           \* what stream_exec has written to sys.stdout
    exit_code,        \* stream_exec's exit_code; read is FALSE before exec_inspect
    execLast,         \* what the last stream_exec call returned to its caller
    tool_workdir,     \* t._workdir of the tools: the workspace they are bound to
    tool_container,   \* t._container of the tools: the container they run in
    tasks,            \* the sessions a run_task_with_websocket call runs for
    fs,               \* the files on the host that the file calls have made
    toolLast,         \* the tool or endpoint call the last step made
    writers,          \* the registry mutations in progress, one per writer
    committed,        \* the registry mutations whose save is done, in order
    peer_sessions,    \* ACTIVE_SESSIONS of a second process on the same file
    writeLast         \* the store write the last step made

sessVars == <<ACTIVE_SESSIONS, SESSIONS_FILE, fileExists, containers,
              nextContainer, workdirs, sessLast>>
regVars == <<registry, procsAlive, now, nextLog, regLast>>
shellVars == <<shells, ACTIVE_SHELLS, shell_connections, conns, loopHeld,
               shellLast>>
fanVars == <<active_connections, subs, bcast, nBroadcasts, fanLast>>
execVars == <<execCall, stream, captured, stdout, exit_code, execLast>>
toolVars == <<tool_workdir, tool_container, tasks, fs, toolLast>>
writerVars == <<writers, committed, peer_sessions, writeLast>>
vars == <<sessVars, regVars, shellVars, fanVars, execVars, toolVars,
          writerVars>>

\* The handlers of main.py run on one event loop, one at a time; a handler
\* runs only while no task sits in a blocking call.
LoopFree == loopHeld = 0


\* ============================================================ session store
\* Every call below takes io, the one thing that goes wrong during it:
\*   "ok"           nothing
\*   "read_fails"   SESSIONS_FILE.read_text() or json.loads raises
\*   "save_fails"   json.dumps or SESSIONS_FILE.write_text raises
\*   "probe_fails"  client.containers.get raises an error other than NotFound
\*   "probe2_fails" the same, at the second probe of list_active_sessions
\*   "stop_fails"   ctr.stop() raises
\*   "provision_fails"  start_container raises

\* What the file holds for a reader that treats a missing file as no sessions.
FileData == IF fileExists THEN SESSIONS_FILE ELSE EmptyMap

\* save_sessions(): the whole table is written; a failure is printed and
\* swallowed, and the file stays as it was.
save_sessions(mem, file, exists, io) ==
    IF io # "save_fails" THEN [file |-> mem, exists |-> TRUE]
                         ELSE [file |-> file, exists |-> exists]

\* The sessions of m whose container the runtime still has.
Live(m, ctrs) == {s \in DOMAIN m : m[s].container_id \in DOMAIN ctrs}

\* load_sessions(): read the file when it exists, probe every session's
\* container, delete those answered NotFound, save.  Any other exception (the
\* read or the parse failing, the runtime answering a probe with another
\* error) is caught by the outer handler, which empties the table.
load_sessions(mem, file, exists, ctrs, io) ==
    IF exists /\ io = "read_fails"
    THEN [mem |-> EmptyMap, file |-> file, exists |-> exists]
    ELSE LET m1 == IF exists THEN file ELSE mem
         IN  IF DOMAIN m1 # {} /\ io = "probe_fails"
             THEN [mem |-> EmptyMap, file |-> file, exists |-> exists]
             ELSE LET m2 == Restrict(m1, Live(m1, ctrs))
                      sv == save_sessions(m2, file, exists, io)
                  IN  [mem |-> m2, file |-> sv.file, exists |-> sv.exists]

Init ==
    /\ ACTIVE_SESSIONS = EmptyMap
    /\ SESSIONS_FILE = EmptyMap
    /\ fileExists = FALSE
    /\ containers = EmptyMap
    /\ nextContainer = 1
    /\ workdirs = {}
    /\ sessLast = NoOp
    /\ registry = << >>
    /\ procsAlive = {}
    /\ now = 1
    /\ nextLog = 1
    /\ regLast = NoOp
    /\ shells = << >>
    /\ ACTIVE_SHELLS = EmptyMap
    /\ shell_connections = EmptyMap
    /\ conns = << >>
    /\ loopHeld = 0
    /\ shellLast = NoOp
    /\ active_connections = EmptyMap
    /\ subs = << >>
    /\ bcast = NoOp
    /\ nBroadcasts = 0
    /\ fanLast = NoOp
    /\ execCall = [pc |-> "idle"]
    /\ stream = << >>
    /\ captured = << >>
    /\ stdout = << >>
    /\ exit_code = [read |-> FALSE]
    /\ execLast = NoOp
    /\ tool_workdir = "unbound"
    /\ tool_container = "unbound"
    /\ tasks = {}
    /\ fs = {}
    /\ toolLast = NoOp
    /\ writers = [w \in WriterIds |-> [pc |-> "idle"]]
    /\ committed = << >>
    /\ peer_sessions = EmptyMap
    /\ writeLast = NoOp

\* workdir.mkdir(parents=True, exist_ok=True) for session sid.
mkdir_rolled_back(dirs, sid) == dirs

mkdir(dirs, sid) == dirs \cup {sid}

\* create_session(task): the id is 8 random hex digits, never compared with
\* the ids in use; the workspace directory is made, the container is
\* started, the record stored and saved.  When start_container raises, the
\* exception leaves create_session.
create_session(task, sid, io) ==
    /\ nextContainer <= MaxContainers
    /\ workdirs' = mkdir(workdirs, sid)
    /\ IF io = "provision_fails"
       THEN /\ sessLast' = [op |-> "create_session", sid |-> sid,
                            ret |-> "raised"]
            /\ UNCHANGED <<ACTIVE_SESSIONS, SESSIONS_FILE, fileExists,
                           containers, nextContainer>>
       ELSE LET rec == [container_id |-> nextContainer, last_task |-> task,
                        conversation_history |-> << >>, status |-> "active"]
                mem == Put(ACTIVE_SESSIONS, sid, rec)
                sv == save_sessions(mem, SESSIONS_FILE, fileExists, io)
            IN  /\ containers' = Put(containers, nextContainer, "running")
                /\ nextContainer' = nextContainer + 1
                /\ ACTIVE_SESSIONS' = mem
                /\ SESSIONS_FILE' = sv.file
                /\ fileExists' = sv.exists
                /\ sessLast' = [op |-> "create_session", sid |-> sid,
                                ret |-> "created"]

\* get_session(session_id): a probe answered by an error other than NotFound
\* leaves get_session as an exception.
get_session(sid, io) ==
    /\ IF sid \notin DOMAIN ACTIVE_SESSIONS
       THEN /\ sessLast' = [op |-> "get_session", sid |-> sid, ret |-> "none"]
            /\ UNCHANGED <<ACTIVE_SESSIONS, SESSIONS_FILE, fileExists>>
       ELSE IF io = "probe_fails"
       THEN /\ sessLast' = [op |-> "get_session", sid |-> sid,
                            ret |-> "raised"]
            /\ UNCHANGED <<ACTIVE_SESSIONS, SESSIONS_FILE, fileExists>>
       ELSE IF ACTIVE_SESSIONS[sid].container_id \in DOMAIN containers
       THEN /\ sessLast' = [op |-> "get_session", sid |-> sid,
                            ret |-> "found"]
            /\ UNCHANGED <<ACTIVE_SESSIONS, SESSIONS_FILE, fileExists>>
       ELSE LET mem == Del(ACTIVE_SESSIONS, sid)
                sv == save_sessions(mem, SESSIONS_FILE, fileExists, io)
            IN  /\ ACTIVE_SESSIONS' = mem
                /\ SESSIONS_FILE' = sv.file
                /\ fileExists' = sv.exists
                /\ sessLast' = [op |-> "get_session", sid |-> sid,
                                ret |-> "none"]
    /\ UNCHANGED <<containers, nextContainer, workdirs>>

\* update_session_conversation(session_id, conversation_history, last_task):
\* last_task replaces the stored one only when it is truthy.
update_session_conversation(sid, payload, last_task, io) ==
    /\ IF sid \in DOMAIN ACTIVE_SESSIONS
       THEN LET old == ACTIVE_SESSIONS[sid]
                rec == [old EXCEPT !.conversation_history = payload,
                                   !.last_task = IF last_task # ""
                                                 THEN last_task ELSE @]
                mem == Put(ACTIVE_SESSIONS, sid, rec)
                sv == save_sessions(mem, SESSIONS_FILE, fileExists, io)
            IN  /\ ACTIVE_SESSIONS' = mem
                /\ SESSIONS_FILE' = sv.file
                /\ fileExists' = sv.exists
                /\ sessLast' = [op |-> "update_session_conversation",
                                sid |-> sid, ret |-> "updated",
                                payload |-> payload, last_task |-> last_task]
       ELSE /\ sessLast' = [op |-> "update_session_conversation",
                            sid |-> sid, ret |-> "skipped"]
            /\ UNCHANGED <<ACTIVE_SESSIONS, SESSIONS_FILE, fileExists>>
    /\ UNCHANGED <<containers, nextContainer, workdirs>>

\* list_active_sessions(): load_sessions(), then a second probe of every
\* session for its status.  removed is what leaves the runtime between the
\* two probes (the loop's own "except NotFound: continue"); a second probe
\* answered by another error leaves the call as an exception.
list_active_sessions(io, removed) ==
    LET ld == load_sessions(ACTIVE_SESSIONS, SESSIONS_FILE, fileExists,
                            containers, io)
        ctrs2 == Restrict(containers, DOMAIN containers \ removed)
        shown == Live(ld.mem, ctrs2)
    IN  /\ removed \subseteq DOMAIN containers
        /\ Cardinality(removed) <= 1
        /\ ACTIVE_SESSIONS' = ld.mem
        /\ SESSIONS_FILE' = ld.file
        /\ fileExists' = ld.exists
        /\ containers' = ctrs2
        /\ IF DOMAIN ld.mem # {} /\ io = "probe2_fails"
           THEN sessLast' = [op |-> "list_active_sessions", ret |-> "raised"]
           ELSE sessLast' =
                    [op |-> "list_active_sessions", ret |-> "listed",
                     active |-> [s \in shown |->
                         [container_id |-> ld.mem[s].container_id,
                          container_status |->
                              ctrs2[ld.mem[s].container_id]]]]
        /\ UNCHANGED <<nextContainer, workdirs>>

\* cleanup_session(session_id): ctr.stop() raising, or the probe answered by
\* an error other than NotFound, leaves cleanup_session before the delete.
cleanup_session(sid, io) ==
    /\ IF sid \notin DOMAIN ACTIVE_SESSIONS
       THEN /\ sessLast' = [op |-> "cleanup_session", sid |-> sid,
                            ret |-> "not found"]
            /\ UNCHANGED <<ACTIVE_SESSIONS, SESSIONS_FILE, fileExists,
                           containers>>
       ELSE LET c == ACTIVE_SESSIONS[sid].container_id
                mem == Del(ACTIVE_SESSIONS, sid)
                sv == save_sessions(mem, SESSIONS_FILE, fileExists, io)
            IN  IF \/ io = "probe_fails"
                   \/ (c \in DOMAIN containers /\ io = "stop_fails")
                THEN /\ sessLast' = [op |-> "cleanup_session", sid |-> sid,
                                     ret |-> "raised"]
                     /\ UNCHANGED <<ACTIVE_SESSIONS, SESSIONS_FILE, fileExists,
                                    containers>>
                ELSE /\ containers' = IF c \in DOMAIN containers
                                      THEN [containers EXCEPT ![c] = "exited"]
                                      ELSE containers
                     /\ ACTIVE_SESSIONS' = mem
                     /\ SESSIONS_FILE' = sv.file
                     /\ fileExists' = sv.exists
                     /\ sessLast' = [op |-> "cleanup_session", sid |-> sid,
                                     ret |-> "cleaned"]
    /\ UNCHANGED <<nextContainer, workdirs>>

\* A restart of the control plane: the module is imported anew (the table is
\* empty) and lifespan() runs load_sessions().
lifespan(io) ==
    LET ld == load_sessions(EmptyMap, SESSIONS_FILE, fileExists, containers, io)
    IN  /\ ACTIVE_SESSIONS' = ld.mem
        /\ SESSIONS_FILE' = ld.file
        /\ fileExists' = ld.exists
        /\ sessLast' = [op |-> "lifespan", ret |-> "loaded"]
        /\ UNCHANGED <<containers, nextContainer, workdirs>>

\* The runtime, out of band: a container is removed, or stops.
ContainerRemoved(c) ==
    /\ c \in DOMAIN containers
    /\ containers' = Restrict(containers, DOMAIN containers \ {c})
    /\ sessLast' = NoOp
    /\ UNCHANGED <<ACTIVE_SESSIONS, SESSIONS_FILE, fileExists, nextContainer,
                   workdirs>>

ContainerExited(c) ==
    /\ c \in DOMAIN containers
    /\ containers[c] = "running"
    /\ containers' = [containers EXCEPT ![c] = "exited"]
    /\ sessLast' = NoOp
    /\ UNCHANGED <<ACTIVE_SESSIONS, SESSIONS_FILE, fileExists, nextContainer,
                   workdirs>>

CreateSession ==
    /\ LoopFree
    /\ \E task \in Tasks, sid \in SessionIds,
          io \in {"ok", "provision_fails", "save_fails"} :
           create_session(task, sid, io)
    /\ UNCHANGED <<regVars, shellVars, fanVars, execVars, toolVars,
                   writerVars>>

GetSession ==
    /\ LoopFree
    /\ \E sid \in SessionIds, io \in {"ok", "probe_fails", "save_fails"} :
           get_session(sid, io)
    /\ UNCHANGED <<regVars, shellVars, fanVars, execVars, toolVars,
                   writerVars>>

UpdateSessionConversation ==
    /\ LoopFree
    /\ \E sid \in SessionIds, payload \in Payloads,
          last_task \in Tasks \cup {""}, io \in {"ok", "save_fails"} :
           update_session_conversation(sid, payload, last_task, io)
    /\ UNCHANGED <<regVars, shellVars, fanVars, execVars, toolVars,
                   writerVars>>

ListActiveSessions ==
    /\ LoopFree
    /\ \E io \in {"ok", "read_fails", "probe_fails", "save_fails",
                   "probe2_fails"},
          removed \in SUBSET ContainerIds :
           list_active_sessions(io, removed)
    /\ UNCHANGED <<regVars, shellVars, fanVars, execVars, toolVars,
                   writerVars>>

CleanupSession ==
    /\ LoopFree
    /\ \E sid \in SessionIds,
          io \in {"ok", "probe_fails", "stop_fails", "save_fails"} :
           cleanup_session(sid, io)
    /\ UNCHANGED <<regVars, shellVars, fanVars, execVars, toolVars,
                   writerVars>>

\* The shells, the connections and their relay tasks live in the memory of
\* the process that is replaced.
Lifespan ==
    /\ \E io \in {"ok", "read_fails", "probe_fails", "save_fails"} :
           lifespan(io)
    /\ shells' = << >>
    /\ ACTIVE_SHELLS' = EmptyMap
    /\ shell_connections' = EmptyMap
    /\ conns' = << >>
    /\ loopHeld' = 0
    /\ shellLast' = NoOp
    /\ active_connections' = EmptyMap
    /\ subs' = << >>
    /\ bcast' = NoOp
    /\ fanLast' = NoOp
    /\ UNCHANGED <<regVars, nBroadcasts, execVars, toolVars,
                   writerVars>>

RuntimeStep ==
    /\ \E c \in ContainerIds : ContainerRemoved(c) \/ ContainerExited(c)
    /\ UNCHANGED <<regVars, shellVars, fanVars, execVars, toolVars,
                   writerVars>>

NextSessions ==
    \/ CreateSession
    \/ GetSession
    \/ UpdateSessionConversation
    \/ ListActiveSessions
    \/ CleanupSession
    \/ Lifespan
    \/ RuntimeStep

SpecSessions == Init /\ [][NextSessions]_vars

\* ---------------------------------------------- session store: the properties
\* The sessions the store holds, in the table or in the file.
Stored == DOMAIN ACTIVE_SESSIONS \cup DOMAIN FileData

\* The container session s is bound to, by the table or else by the file.
Bound(s) == IF s \in DOMAIN ACTIVE_SESSIONS
            THEN ACTIVE_SESSIONS[s].container_id
            ELSE FileData[s].container_id

\* C1: whenever a session-store operation has completed, the persisted file
\* and the in-memory table hold the same mapping of session id to record,
\* also after a failed save, a failed load and a probe answered by an error
\* other than not-found.
C1_FileEqualsTable == FileData = ACTIVE_SESSIONS

\* C2: when the container of a stored session has been removed out of band,
\* the next list_active_sessions() or get_session(id) removes the session from
\* the table and from the file, get_session(id) answers not-found, and no call
\* reports a session whose container the runtime no longer has.
C2_NextCallPrunes ==
    [][/\ \A s \in Stored :
            (/\ Bound(s) \notin DOMAIN containers
             /\ \/ sessLast'.op = "list_active_sessions"
                \/ sessLast'.op = "get_session" /\ sessLast'.sid = s)
            => /\ s \notin DOMAIN ACTIVE_SESSIONS'
               /\ s \notin DOMAIN FileData'
               /\ sessLast'.op = "get_session" => sessLast'.ret = "none"
       /\ (sessLast'.op = "get_session" /\ sessLast'.ret = "found")
            => ACTIVE_SESSIONS'[sessLast'.sid].container_id
                   \in DOMAIN containers'
       /\ (sessLast'.op = "list_active_sessions" /\ sessLast'.ret = "listed")
            => \A s \in DOMAIN sessLast'.active :
                   sessLast'.active[s].container_id \in DOMAIN containers']_vars

\* C3: list_active_sessions() returns exactly the sessions of the persisted
\* file whose container the runtime still has, each with the container's
\* current status, and when it returns the file and the table hold exactly
\* those sessions.
C3_ListReturnsSurvivors ==
    [][sessLast'.op = "list_active_sessions" =>
         LET surv == Live(FileData, containers')
         IN  /\ sessLast'.ret = "listed"
             /\ DOMAIN sessLast'.active = surv
             /\ \A s \in surv :
                  /\ sessLast'.active[s].container_id = FileData[s].container_id
                  /\ sessLast'.active[s].container_status
                         = containers'[FileData[s].container_id]
             /\ DOMAIN ACTIVE_SESSIONS' = surv
             /\ DOMAIN FileData' = surv]_vars

\* C13: cleanup_session(id) on a stored session ends with the record gone
\* from the table and from the file, the container stopped when the runtime
\* has it, also when the stop attempt fails.
C13_CleanupRemovesRecord ==
    [][(/\ sessLast'.op = "cleanup_session"
        /\ sessLast'.sid \in DOMAIN ACTIVE_SESSIONS)
       => LET sid == sessLast'.sid
              c == ACTIVE_SESSIONS[sid].container_id
          IN  /\ sid \notin DOMAIN ACTIVE_SESSIONS'
              /\ sid \notin DOMAIN FileData'
              /\ c \in DOMAIN containers => containers'[c] = "exited"]_vars

\* C14: update_session_conversation(id, payload, last_task) on a stored
\* session leaves payload as the stored conversation and last_task as the
\* stored last task, for every last_task, the empty string included.
C14_UpdateReplaces ==
    [][(/\ sessLast'.op = "update_session_conversation"
        /\ sessLast'.sid \in DOMAIN ACTIVE_SESSIONS)
       => LET rec == ACTIVE_SESSIONS'[sessLast'.sid]
          IN  /\ sessLast'.ret = "updated"
              /\ rec.conversation_history = sessLast'.payload
              /\ rec.last_task = sessLast'.last_task]_vars

\* C15: a get_session(id) issued right after the create_session that
\* returned id does not answer not-found, the record is in the table and in
\* the file with status active and an empty conversation, and the container
\* found is running.
C15_CreatedSessionIsFound ==
    [][(/\ sessLast.op = "create_session"
        /\ sessLast.ret = "created"
        /\ sessLast'.op = "get_session"
        /\ sessLast'.sid = sessLast.sid)
       => LET sid == sessLast.sid
          IN  /\ sessLast'.ret # "none"
              /\ sid \in DOMAIN ACTIVE_SESSIONS'
              /\ sid \in DOMAIN FileData'
              /\ FileData'[sid] = ACTIVE_SESSIONS'[sid]
              /\ ACTIVE_SESSIONS'[sid].status = "active"
              /\ ACTIVE_SESSIONS'[sid].conversation_history = << >>
              /\ sessLast'.ret = "found"
                   => containers'[ACTIVE_SESSIONS'[sid].container_id]
                          = "running"]_vars

\* C16: when provisioning fails inside create_session (no container is
\* started), the call raises, the table and the file are as they were, and
\* the workspace directory made for the session is left in place.
C16_FailedProvisionAddsNothing ==
    [][(sessLast'.op = "create_session" /\ containers' = containers)
       => /\ sessLast'.ret = "raised"
          /\ ACTIVE_SESSIONS' = ACTIVE_SESSIONS
          /\ SESSIONS_FILE' = SESSIONS_FILE
          /\ fileExists' = fileExists
          /\ sessLast'.sid \in workdirs']_vars

\* C16's case: create_session raised for an id that has no record, while
\* another session is stored, and the id's workspace directory exists.
C16_Witness ==
    /\ sessLast.op = "create_session"
    /\ sessLast.ret = "raised"
    /\ sessLast.sid \notin Stored
    /\ sessLast.sid \in workdirs
    /\ Stored # {}
    /\ FileData = ACTIVE_SESSIONS

\* C25: after a restart of the control plane the table holds exactly the
\* sessions that were persisted before it and whose container the runtime
\* still has, and no shell session and no connection is left.
C25_RestartRestoresLive ==
    [][sessLast'.op = "lifespan"
       => /\ ACTIVE_SESSIONS'
               = Restrict(FileData, Live(FileData, containers))
          /\ ACTIVE_SHELLS' = EmptyMap
          /\ shell_connections' = EmptyMap
          /\ active_connections' = EmptyMap]_vars

\* C17: while a session record exists no operation changes its container_id.
C17_ContainerIdImmutable ==
    [][\A s \in DOMAIN ACTIVE_SESSIONS \cap DOMAIN ACTIVE_SESSIONS' :
         ACTIVE_SESSIONS'[s].container_id
             = ACTIVE_SESSIONS[s].container_id]_vars

\* C18: create_session never returns an id that is a key of the session
\* table, and create_shell_session never registers a shell id that is a key
\* of the shell table.
C18_IdsAreUnique ==
    [][/\ (sessLast'.op = "create_session" /\ sessLast'.ret = "created")
            => sessLast'.sid \notin DOMAIN ACTIVE_SESSIONS
       /\ (shellLast'.op = "create_shell_session" /\ shells' # shells)
            => DOMAIN ACTIVE_SHELLS' # DOMAIN ACTIVE_SHELLS]_vars

\* C19: get_session, update_session_conversation and cleanup_session given
\* an id with no record, and delete_shell_session and a shell attach given a
\* shell id with no record, report not-found and leave every store as it
\* was.
C19_UnknownIdIsNotFound ==
    [][/\ (/\ sessLast'.op \in {"get_session", "update_session_conversation",
                                "cleanup_session"}
           /\ sessLast'.sid \notin DOMAIN ACTIVE_SESSIONS)
          => /\ sessLast'.ret \in {"none", "not found"}
             /\ UNCHANGED <<ACTIVE_SESSIONS, SESSIONS_FILE, fileExists>>
       /\ (/\ shellLast'.op = "delete_shell_session"
           /\ shellLast'.ret # "deleted")
          => /\ shellLast'.ret = "404"
             /\ UNCHANGED <<shells, ACTIVE_SHELLS, shell_connections, conns>>
       /\ (/\ shellLast'.op = "shell_websocket_endpoint"
           /\ Len(conns') > Len(conns)
           /\ conns'[Len(conns')].shell_id \notin DOMAIN ACTIVE_SHELLS)
          => /\ shellLast'.ret = "rejected"
             /\ UNCHANGED <<shells, ACTIVE_SHELLS, shell_connections>>]_vars

\* C36: a task of a session that was removed by cleanup_session while the
\* task was running ends with an update_session_conversation that does not
\* bring the session back: after it the id is neither in the table nor in
\* the persisted file.
C36_CompletionDoesNotRecreate ==
    [][(/\ sessLast.op = "cleanup_session"
        /\ sessLast.ret = "cleaned"
        /\ sessLast'.op = "update_session_conversation"
        /\ sessLast'.sid = sessLast.sid)
       => /\ sessLast'.ret = "skipped"
          /\ sessLast'.sid \notin DOMAIN ACTIVE_SESSIONS'
          /\ sessLast'.sid \notin DOMAIN FileData']_vars

\* =========================================================== terminal bridge
\* shells[o] is one ShellSession object:
\*   shell_id, session_id, container_id   what __init__ was given
\*   exec_id     TRUE once start_shell created the exec instance
\*   process     the connection whose bridge process self.process is, 0: None
\*   cleanups    the calls of cleanup() made on the object
\* conns[a] is one connection to /ws/shells/{shell_id} and the handler
\* serving it:
\*   shell       the ShellSession the handler took from ACTIVE_SHELLS, 0: none
\*   stage       "accepting" (suspended in websocket.accept), "relaying"
\*               (in asyncio.gather), "ended"
\*   how         how the handler ended: "rejected" (no such shell),
\*               "error" (an exception before the relay loops started),
\*               "returned" (both relay loops finished)
\*   ws          the remote end: "open" | "closed"
\*   inbox       the messages the remote end sent, not yet received
\*   proc        the bridge process of this attach: "none" | "alive" | "exited"
\*   master      the pseudo-terminal master: "none" | "open" | "closed"
\*   out         the chunks the bridge process wrote, not yet read
\*   reader      read_from_shell: "none" | "ready" (to run, or suspended in
\*               send_json) | "reading" (inside os.read) | "done"
\*   writer      write_to_shell: "none" | "ready" (suspended in
\*               receive_text) | "done"

NoConn(shid) ==
    [shell |-> 0, shell_id |-> shid, stage |-> "ended", how |-> "rejected",
     ws |-> "closed", inbox |-> << >>, proc |-> "none", master |-> "none",
     out |-> 0, reader |-> "none", writer |-> "none"]

\* A start_shell that does not look at the container's status.
start_shell_any_status(status, io) == io # "exec_fails"

\* ShellSession.start_shell(): False when the container is not running or
\* when reload() or exec_create raises.
start_shell(status, io) == status = "running" /\ io # "exec_fails"

\* ShellSession.cleanup() on object obj: when self.process is set and has not
\* exited, its process group gets SIGTERM, and SIGKILL after two seconds.
\* Nothing else is touched, and every exception is swallowed.
cleanup(cs, obj) ==
    IF obj.process # 0 /\ cs[obj.process].proc = "alive"
    THEN [cs EXCEPT ![obj.process].proc = "exited"]
    ELSE cs

\* A cleanup that goes straight to the forced signal.
cleanup_signals_forced(proc, waited) ==
    IF proc = "alive" THEN <<"SIGKILL">> ELSE << >>

\* The signals ShellSession.cleanup() sends to the process group of
\* self.process, in order.  proc is what self.process is at the call ("none"
\* when no attach has set it); waited is how process.wait(timeout=2) ends.
cleanup_signals(proc, waited) ==
    IF proc # "alive" THEN << >>
    ELSE IF waited = "exited" THEN <<"SIGTERM">>
    ELSE <<"SIGTERM", "SIGKILL">>

\* ConnectionManager.disconnect_shell(shell_id)
disconnect_shell(m, shid) == Del(m, shid)

\* create_shell_session(session_id): get_session, a new ShellSession under a
\* random id, start_shell; the object is stored only when the start succeeded.
create_shell_session(sid, shid, io) ==
    /\ Len(shells) < MaxShells
    /\ get_session(sid, io)
    /\ IF sessLast'.ret # "found"
       THEN /\ shellLast' = [op |-> "create_shell_session",
                             ret |-> IF sessLast'.ret = "none"
                                     THEN "404" ELSE "500"]
            /\ UNCHANGED <<shells, ACTIVE_SHELLS>>
       ELSE LET c == ACTIVE_SESSIONS[sid].container_id
                ok == start_shell(containers[c], io)
                obj == [shell_id |-> shid, session_id |-> sid,
                        container_id |-> c, exec_id |-> ok, process |-> 0,
                        cleanups |-> 0]
            IN  IF ok
                THEN /\ shells' = Append(shells, obj)
                     /\ ACTIVE_SHELLS' = Put(ACTIVE_SHELLS, shid, Len(shells) + 1)
                     /\ shellLast' = [op |-> "create_shell_session",
                                      ret |-> "created"]
                ELSE /\ shellLast' = [op |-> "create_shell_session",
                                      ret |-> "500"]
                     /\ UNCHANGED <<shells, ACTIVE_SHELLS>>
    /\ UNCHANGED <<shell_connections, conns, loopHeld>>

\* delete_shell_session(shell_id): cleanup(), unregister, disconnect_shell.
\* waited is how cleanup's process.wait(timeout=2) ends when it is reached.
delete_shell_session(shid) ==
    /\ IF shid \notin DOMAIN ACTIVE_SHELLS
       THEN /\ shellLast' = [op |-> "delete_shell_session", ret |-> "404"]
            /\ UNCHANGED <<shells, ACTIVE_SHELLS, shell_connections, conns>>
       ELSE LET o == ACTIVE_SHELLS[shid]
                proc == IF shells[o].process = 0 THEN "none"
                        ELSE conns[shells[o].process].proc
            IN  /\ conns' = cleanup(conns, shells[o])
                /\ shells' = [shells EXCEPT ![o].cleanups = @ + 1]
                /\ ACTIVE_SHELLS' = Del(ACTIVE_SHELLS, shid)
                /\ shell_connections' = disconnect_shell(shell_connections, shid)
                /\ \E waited \in IF proc = "alive" THEN {"exited", "timeout"}
                                  ELSE {"none"} :
                       shellLast' = [op |-> "delete_shell_session",
                                     ret |-> "deleted", shell |-> o,
                                     proc |-> proc, waited |-> waited,
                                     signals |-> cleanup_signals(proc, waited)]
    /\ UNCHANGED loopHeld

\* shell_websocket_endpoint, to its first suspension: an unknown shell id
\* closes the connection; a known one takes the ShellSession and awaits
\* websocket.accept().
shell_websocket_open(shid) ==
    /\ Len(conns) < MaxConns
    /\ IF shid \notin DOMAIN ACTIVE_SHELLS
       THEN /\ conns' = Append(conns, NoConn(shid))
            /\ shellLast' = [op |-> "shell_websocket_endpoint",
                             ret |-> "rejected"]
       ELSE /\ conns' = Append(conns,
                   [NoConn(shid) EXCEPT !.shell = ACTIVE_SHELLS[shid],
                                        !.stage = "accepting", !.how = "",
                                        !.ws = "open"])
            /\ shellLast' = [op |-> "shell_websocket_endpoint",
                             ret |-> "accepting"]
    /\ UNCHANGED <<shells, ACTIVE_SHELLS, shell_connections, loopHeld>>

\* shell_websocket_endpoint from the accept to asyncio.gather:
\* connect_shell stores the connection, the confirmation is sent, and
\* attach_websocket opens the pseudo-terminal, spawns the bridge process
\* (whose first output is the shell's prompt), stores it in self.process and
\* starts the two relay loops.  A send to a closed connection, a missing
\* exec_id, io = "spawn_fails" (Popen raising, the pseudo-terminal already
\* open) and io = "send_fails" (attach_websocket's own confirmation raising,
\* the bridge process already running) are exceptions: the endpoint's handler
\* calls disconnect_shell.
shell_websocket_attach(a, io) ==
    LET c == conns[a]
        o == c.shell
        bound == Put(shell_connections, c.shell_id, a)
    IN  /\ c.stage = "accepting"
        /\ IF c.ws = "closed" \/ ~shells[o].exec_id
           THEN /\ conns' = [conns EXCEPT ![a].stage = "ended",
                                          ![a].how = "error"]
                /\ shell_connections' = disconnect_shell(bound, c.shell_id)
                /\ UNCHANGED shells
           ELSE IF io = "spawn_fails"
           THEN /\ conns' = [conns EXCEPT ![a].stage = "ended",
                                          ![a].how = "error",
                                          ![a].master = "open"]
                /\ shell_connections' = disconnect_shell(bound, c.shell_id)
                /\ UNCHANGED shells
           ELSE IF io = "send_fails"
           THEN /\ conns' = [conns EXCEPT ![a].stage = "ended",
                                          ![a].how = "error",
                                          ![a].ws = "closed",
                                          ![a].proc = "alive",
                                          ![a].master = "open",
                                          ![a].out = 1]
                /\ shell_connections' = disconnect_shell(bound, c.shell_id)
                /\ shells' = [shells EXCEPT ![o].process = a]
           ELSE /\ conns' = [conns EXCEPT ![a].stage = "relaying",
                                          ![a].proc = "alive",
                                          ![a].master = "open",
                                          ![a].out = 1,
                                          ![a].reader = "ready",
                                          ![a].writer = "ready"]
                /\ shell_connections' = bound
                /\ shells' = [shells EXCEPT ![o].process = a]
        /\ shellLast' = [op |-> "shell_websocket_endpoint",
                         ret |-> conns'[a].stage, conn |-> a]
        /\ UNCHANGED <<ACTIVE_SHELLS, loopHeld>>

\* One pass of read_from_shell's loop, from os.read(master, 1024): a chunk is
\* read and sent (the task suspends in send_json; a closed connection makes
\* send_json raise), or the read fails because the bridge process is gone, or
\* nothing is there to read and os.read does not return.  Leaving the loop
\* closes the master.
read_from_shell(c) ==
    IF c.out > 0
    THEN IF c.ws = "closed"
         THEN [c EXCEPT !.out = @ - 1, !.master = "closed", !.reader = "done"]
         ELSE [c EXCEPT !.out = @ - 1, !.reader = "ready"]
    ELSE IF c.proc # "alive"
    THEN [c EXCEPT !.master = "closed", !.reader = "done"]
    ELSE [c EXCEPT !.reader = "reading"]

\* What the bridge process writes back when bytes reach it.
Echo(c) == IF c.out < MaxOut THEN c.out + 1 ELSE c.out

\* A write_to_shell that leaves its loop on a message of an unknown type.
write_to_shell_strict(c, oserror) ==
    IF c.inbox = << >>
    THEN [c EXCEPT !.writer = "done"]
    ELSE LET m == Head(c.inbox)
             raises == c.master # "open" \/ (c.proc # "alive" /\ oserror)
             d == [c EXCEPT !.inbox = Tail(@)]
             w == IF c.proc = "alive" THEN [d EXCEPT !.out = Echo(c)] ELSE d
         IN  IF m = "shell_input"
             THEN IF raises THEN [d EXCEPT !.writer = "done"] ELSE w
             ELSE IF m = "shell_resize"
             THEN IF raises THEN d ELSE w
             ELSE [d EXCEPT !.writer = "done"]

\* One pass of write_to_shell's loop, from receive_text(): a message is
\* handled, or the closed connection raises WebSocketDisconnect.  os.write
\* raises OSError on a closed master; on an open master whose bridge process
\* is gone it raises or takes the bytes, as oserror says.  The OSError ends
\* the loop for an input message and is logged for a resize.
write_to_shell(c, oserror) ==
    IF c.inbox = << >>
    THEN [c EXCEPT !.writer = "done"]
    ELSE LET m == Head(c.inbox)
             raises == c.master # "open" \/ (c.proc # "alive" /\ oserror)
             d == [c EXCEPT !.inbox = Tail(@)]
             w == IF c.proc = "alive" THEN [d EXCEPT !.out = Echo(c)] ELSE d
         IN  IF m = "shell_input"
             THEN IF raises THEN [d EXCEPT !.writer = "done"] ELSE w
             ELSE IF m = "shell_resize"
             THEN IF raises THEN d ELSE w
             ELSE d

\* The event loop runs the inbound loop of connection a.
reader_runs(a) ==
    /\ conns[a].reader = "ready"
    /\ conns' = [conns EXCEPT ![a] = read_from_shell(@)]
    /\ loopHeld' = IF conns'[a].reader = "reading" THEN a ELSE 0
    /\ shellLast' = NoOp
    /\ UNCHANGED <<shells, ACTIVE_SHELLS, shell_connections>>

\* The os.read that held the event loop returns.
reader_wakes(a) ==
    /\ loopHeld = a
    /\ conns[a].out > 0 \/ conns[a].proc # "alive"
    /\ conns' = [conns EXCEPT ![a] = read_from_shell(@)]
    /\ loopHeld' = 0
    /\ shellLast' = NoOp
    /\ UNCHANGED <<shells, ACTIVE_SHELLS, shell_connections>>

\* The outbound loop of connection a can take a step: receive_text has a
\* message or a disconnect to deliver, and the event loop is free to run it.
WriterCanRun(a) ==
    /\ LoopFree
    /\ conns[a].writer = "ready"
    /\ conns[a].inbox # << >> \/ conns[a].ws = "closed"

\* The event loop runs the outbound loop of connection a.
writer_runs(a) ==
    /\ WriterCanRun(a)
    /\ \E oserror \in BOOLEAN :
           conns' = [conns EXCEPT ![a] = write_to_shell(@, oserror)]
    /\ shellLast' = IF /\ conns[a].inbox # << >>
                       /\ Head(conns[a].inbox)
                              \notin {"shell_input", "shell_resize"}
                    THEN [op |-> "write_to_shell", conn |-> a,
                          ret |-> "unknown message type"]
                    ELSE NoOp
    /\ UNCHANGED <<shells, ACTIVE_SHELLS, shell_connections, loopHeld>>

\* asyncio.gather returns when both loops are done: attach_websocket and the
\* endpoint return, calling nothing more.
gather_returns(a) ==
    /\ conns[a].stage = "relaying"
    /\ conns[a].reader = "done"
    /\ conns[a].writer = "done"
    /\ conns' = [conns EXCEPT ![a].stage = "ended", ![a].how = "returned"]
    /\ shellLast' = [op |-> "shell_websocket_endpoint", ret |-> "ended",
                     conn |-> a]
    /\ UNCHANGED <<shells, ACTIVE_SHELLS, shell_connections, loopHeld>>

\* The remote end sends a message, or closes.
RemoteSends(a, m) ==
    /\ conns[a].ws = "open"
    /\ conns[a].stage = "relaying"
    /\ Len(conns[a].inbox) < MaxInbox
    /\ conns' = [conns EXCEPT ![a].inbox = Append(@, m)]
    /\ shellLast' = NoOp
    /\ UNCHANGED <<shells, ACTIVE_SHELLS, shell_connections, loopHeld>>

RemoteCloses(a) ==
    /\ conns[a].ws = "open"
    /\ conns' = [conns EXCEPT ![a].ws = "closed"]
    /\ shellLast' = NoOp
    /\ UNCHANGED <<shells, ACTIVE_SHELLS, shell_connections, loopHeld>>

\* The bridge process ends by itself (the shell exits, the sandbox stops).
BridgeExits(a) ==
    /\ conns[a].proc = "alive"
    /\ conns' = [conns EXCEPT ![a].proc = "exited"]
    /\ shellLast' = NoOp
    /\ UNCHANGED <<shells, ACTIVE_SHELLS, shell_connections, loopHeld>>

ConnIds == 1..Len(conns)

CreateShellSession ==
    /\ LoopFree
    /\ \E sid \in SessionIds, shid \in ShellIds,
          io \in {"ok", "probe_fails", "exec_fails"} :
           create_shell_session(sid, shid, io)
    /\ UNCHANGED <<regVars, fanVars, execVars, toolVars,
                   writerVars>>

DeleteShellSession ==
    /\ LoopFree
    /\ \E shid \in ShellIds : delete_shell_session(shid)
    /\ UNCHANGED <<sessVars, regVars, fanVars, execVars, toolVars,
                   writerVars>>

ShellWebsocketOpen ==
    /\ LoopFree
    /\ \E shid \in ShellIds : shell_websocket_open(shid)
    /\ UNCHANGED <<sessVars, regVars, fanVars, execVars, toolVars,
                   writerVars>>

ShellWebsocketAttach ==
    /\ LoopFree
    /\ \E a \in ConnIds, io \in {"ok", "spawn_fails", "send_fails"} :
           shell_websocket_attach(a, io)
    /\ UNCHANGED <<sessVars, regVars, fanVars, execVars, toolVars,
                   writerVars>>

ReaderRuns ==
    /\ LoopFree
    /\ \E a \in ConnIds : reader_runs(a)
    /\ UNCHANGED <<sessVars, regVars, fanVars, execVars, toolVars,
                   writerVars>>

ReaderWakes ==
    /\ \E a \in ConnIds : reader_wakes(a)
    /\ UNCHANGED <<sessVars, regVars, fanVars, execVars, toolVars,
                   writerVars>>

WriterRuns ==
    /\ \E a \in ConnIds : writer_runs(a)
    /\ UNCHANGED <<sessVars, regVars, fanVars, execVars, toolVars,
                   writerVars>>

GatherReturns ==
    /\ LoopFree
    /\ \E a \in ConnIds : gather_returns(a)
    /\ UNCHANGED <<sessVars, regVars, fanVars, execVars, toolVars,
                   writerVars>>

RemoteStep ==
    /\ \E a \in ConnIds :
         \/ \E m \in MsgTypes : RemoteSends(a, m)
         \/ RemoteCloses(a)
         \/ BridgeExits(a)
    /\ UNCHANGED <<sessVars, regVars, fanVars, execVars, toolVars,
                   writerVars>>

\* The sessions the shells of this specification are opened in.
SessionForShells ==
    /\ LoopFree
    /\ "a1" \notin DOMAIN ACTIVE_SESSIONS
    /\ create_session("t1", "a1", "ok")
    /\ UNCHANGED <<regVars, shellVars, fanVars, execVars, toolVars,
                   writerVars>>

\* delete_session(session_id), DELETE /api/sessions/{id}: an id absent from
\* the table answers 404; a present one goes through cleanup_session, which
\* knows neither ACTIVE_SHELLS nor the ShellSession objects.
delete_session ==
    /\ LoopFree
    /\ \E sid \in SessionIds, io \in {"ok", "stop_fails"} :
           IF sid \notin DOMAIN ACTIVE_SESSIONS
           THEN /\ sessLast' = [op |-> "delete_session", sid |-> sid,
                                ret |-> "404"]
                /\ UNCHANGED <<ACTIVE_SESSIONS, SESSIONS_FILE, fileExists,
                               containers, nextContainer, workdirs>>
           ELSE cleanup_session(sid, io)
    /\ UNCHANGED <<regVars, shellVars, fanVars, execVars, toolVars,
                   writerVars>>

NextShell ==
    \/ SessionForShells
    \/ RuntimeStep
    \/ CreateShellSession
    \/ DeleteShellSession
    \/ ShellWebsocketOpen
    \/ ShellWebsocketAttach
    \/ ReaderRuns
    \/ ReaderWakes
    \/ WriterRuns
    \/ GatherReturns
    \/ RemoteStep

SpecShell == Init /\ [][NextShell]_vars

\* The shells against the life of their session: sessions are created and
\* deleted while shells are created, attached and deleted; the relay loops
\* of the attached connections do not run.
NextShellOwners ==
    \/ SessionForShells
    \/ delete_session
    \/ CreateShellSession
    \/ DeleteShellSession
    \/ ShellWebsocketOpen
    \/ ShellWebsocketAttach
    \/ RemoteStep

SpecShellOwners == Init /\ [][NextShellOwners]_vars

\* --------------------------------------------- terminal bridge: the properties
\* Connection a was attached to its shell and its handler has ended: the
\* remote end disconnected or a relay loop ended on an error.
EndedAfterAttach(a) ==
    conns[a].stage = "ended" /\ conns[a].how = "returned"

\* ShellSession o is closed: it was deleted, or a connection attached to it
\* has ended.
Closed(o) ==
    \/ shells[o].cleanups > 0
    \/ \E a \in ConnIds : conns[a].shell = o /\ EndedAfterAttach(a)

\* C4: every way an attached shell ends (delete, remote disconnect, relay
\* error) has run the shell's cleanup: no handler of an attached connection
\* has ended with cleanup() never called on its shell.
C4_EndedShellWasCleaned ==
    \A a \in ConnIds :
        EndedAfterAttach(a) => shells[conns[a].shell].cleanups > 0

\* C5: the read of the pseudo-terminal master is a suspension point: while a
\* connection is attached and a message of the remote end waits for the
\* outbound loop, the event loop is free to run that loop.
C5_InputReachesWriter ==
    \A a \in ConnIds :
        (/\ conns[a].stage = "relaying"
         /\ conns[a].writer = "ready"
         /\ conns[a].inbox # << >>)
        => WriterCanRun(a)

\* C6: a shell moves only forward through created, started, attached,
\* closed: a connection is attached only to a shell that has its exec handle,
\* and never to a shell that is closed.
C6_NoAttachAfterClosed ==
    [][\A b \in ConnIds :
         (conns[b].stage = "accepting" /\ conns'[b].stage = "relaying")
         => /\ shells[conns[b].shell].exec_id
            /\ ~Closed(conns[b].shell)]_vars

\* C7: cleanup() called twice in succession on a shell in any state leaves
\* no resource of the shell live: the bridge process of every attach of the
\* shell is not running and its pseudo-terminal master is not open.
C7_CleanupTwiceReleasesAll ==
    \A o \in 1..Len(shells) :
        LET after == cleanup(cleanup(conns, shells[o]), shells[o])
        IN  \A a \in ConnIds :
                conns[a].shell = o
                => after[a].proc # "alive" /\ after[a].master # "open"

\* C12: at most one connection is active on a shell: no two connections to
\* one shell id are relaying at the same time, and no two bridge processes
\* of one shell run at the same time.
C12_OneConnectionPerShell ==
    \A a, b \in ConnIds :
        (a # b /\ conns[a].shell_id = conns[b].shell_id)
        => /\ ~(conns[a].stage = "relaying" /\ conns[b].stage = "relaying")
           /\ ~(conns[a].proc = "alive" /\ conns[b].proc = "alive")

\* C28: when one relay loop of an attached connection has finished, the other
\* is torn down and the attach returns: no connection is left relaying with
\* its inbound loop done and its outbound loop waiting for a message of a
\* remote end that sends none, nor with its outbound loop done and its inbound
\* loop inside a read of a pseudo-terminal that has no output.
C28_OtherLoopTornDown ==
    \A a \in ConnIds :
        conns[a].stage = "relaying"
        => /\ ~(/\ conns[a].reader = "done"
                /\ conns[a].writer = "ready"
                /\ conns[a].inbox = << >>
                /\ conns[a].ws = "open")
           /\ ~(/\ conns[a].writer = "done"
                /\ conns[a].reader = "reading"
                /\ conns[a].out = 0
                /\ conns[a].proc = "alive")

\* C31: every shell in the shell table belongs to a session that is in the
\* session table, and no bridge process of a shell runs once the shell's
\* session has been removed from the table.
C31_ShellsBelongToSessions ==
    /\ \A shid \in DOMAIN ACTIVE_SHELLS :
           shells[ACTIVE_SHELLS[shid]].session_id \in DOMAIN ACTIVE_SESSIONS
    /\ \A a \in ConnIds :
           conns[a].proc = "alive"
           => shells[conns[a].shell].session_id \in DOMAIN ACTIVE_SESSIONS

\* C32: when delete_shell_session(shell_id) has completed, no bridge process
\* spawned by an attach of that shell is running, however many times the
\* shell was attached.
C32_DeleteStopsEveryBridge ==
    (shellLast.op = "delete_shell_session" /\ shellLast.ret = "deleted")
    => \A a \in ConnIds :
           conns[a].shell = shellLast.shell => conns[a].proc # "alive"

\* C33: within one attach the pseudo-terminal master is closed by the inbound
\* loop: an attach that has ended leaves no master open, and the outbound
\* loop hands an input or a resize message to os.write only while the master
\* is open.
C33_MasterClosedOnceNoLateWrite ==
    [][\A a \in ConnIds :
         /\ (a \in 1..Len(conns') /\ conns'[a].stage = "ended")
            => conns'[a].master # "open"
         /\ (/\ a \in 1..Len(conns')
             /\ conns[a].inbox # << >>
             /\ conns'[a].inbox = Tail(conns[a].inbox)
             /\ Head(conns[a].inbox) \in {"shell_input", "shell_resize"})
            => conns[a].master = "open"]_vars

\* C34: shell_connections holds an entry for a shell id only while the
\* connection it names is relaying: once that connection's handler has ended,
\* for whatever reason, the entry is gone.
C34_EntryOnlyWhileRelaying ==
    \A shid \in DOMAIN shell_connections :
        conns[shell_connections[shid]].stage = "relaying"

\* C37: a shell requested for a session whose container is there but not
\* running is not started: the request is answered by an error, no shell is
\* registered, and no exec handle, bridge process or pseudo-terminal comes
\* into being.
C37_NoShellOnStoppedContainer ==
    [][(/\ shellLast'.op = "create_shell_session"
        /\ sessLast'.op = "get_session"
        /\ sessLast'.ret = "found"
        /\ containers[ACTIVE_SESSIONS[sessLast'.sid].container_id]
               # "running")
       => /\ shellLast'.ret = "500"
          /\ UNCHANGED <<shells, ACTIVE_SHELLS, shell_connections,
                         conns>>]_vars

C37_Witness ==
    /\ shellLast.op = "create_shell_session"
    /\ shellLast.ret = "500"
    /\ sessLast.op = "get_session"
    /\ sessLast.ret = "found"
    /\ containers[ACTIVE_SESSIONS[sessLast.sid].container_id] = "exited"

\* C38: cleanup is two-phase: the graceful signal goes to the process group
\* before any forced signal, the forced signal is sent only when the process
\* did not exit within the bounded wait, and no signal at all is sent when
\* the bridge process has already exited or was never started.
C38_TwoPhaseCleanup ==
    (shellLast.op = "delete_shell_session" /\ shellLast.ret = "deleted")
    => LET sig == shellLast.signals
       IN  /\ shellLast.proc # "alive" => sig = << >>
           /\ shellLast.proc = "alive"
                  => /\ sig # << >>
                     /\ sig[1] = "SIGTERM"
           /\ \A i \in 1..Len(sig) :
                  sig[i] = "SIGKILL"
                  => /\ shellLast.waited = "timeout"
                     /\ \E j \in 1..(i - 1) : sig[j] = "SIGTERM"

C38_Witness ==
    /\ shellLast.op = "delete_shell_session"
    /\ shellLast.ret = "deleted"
    /\ shellLast.proc = "alive"
    /\ shellLast.waited = "timeout"
    /\ shellLast.signals = <<"SIGTERM", "SIGKILL">>

\* C39: a message whose type is neither shell_input nor shell_resize writes
\* nothing to the pseudo-terminal and does not end the outbound loop: the
\* pass that takes it changes nothing of the connection but the queue of
\* received messages, and the inputs that come after it are written, in the
\* order they came.
C39_UnknownTypeIsSkipped ==
    \A a \in ConnIds, oserror \in BOOLEAN :
        (/\ conns[a].writer = "ready"
         /\ conns[a].inbox # << >>
         /\ Head(conns[a].inbox) \notin {"shell_input", "shell_resize"})
        => LET r0 == write_to_shell(conns[a], oserror)
               nxt == [r0 EXCEPT !.inbox = <<"shell_input", "shell_resize">>]
               r1 == write_to_shell(nxt, oserror)
               r2 == write_to_shell(r1, oserror)
           IN  /\ r0 = [conns[a] EXCEPT !.inbox = Tail(@)]
               /\ r0.writer = "ready"
               /\ (r0.master = "open" /\ r0.proc = "alive")
                      => /\ r1.inbox = <<"shell_resize">>
                         /\ r1.out = Echo(nxt)
                         /\ r1.writer = "ready"
                         /\ r2.inbox = << >>
                         /\ r2.out = Echo(r1)
                         /\ r2.writer = "ready"

C39_Witness ==
    /\ shellLast.op = "write_to_shell"
    /\ shellLast.ret = "unknown message type"
    /\ conns[shellLast.conn].writer = "ready"
    /\ conns[shellLast.conn].master = "open"
    /\ conns[shellLast.conn].proc = "alive"

\* ========================================================= process registry
\* registry is the content of the workspace's .processes.json; a workspace
\* with no such file has the empty list (load_registry's FileNotFoundError).

load_registry(file) == file

\* add_proc keeping one record per pid: the older records of the pid are dropped.
add_proc_one_per_pid(file, record) ==
    Append(SelectSeq(load_registry(file), LAMBDA p : p.pid # record.pid),
           record)

\* add_proc(workdir, record): load, append, save.
add_proc(file, record) == Append(load_registry(file), record)

\* mark_stopped stamping every record, whatever its pid.
mark_stopped_every_record(file, pid, t) ==
    LET data == load_registry(file)
    IN  [i \in 1..Len(data) |->
            Put(Put(data[i], "status", "stopped"), "ended", t)]

\* mark_stopped(workdir, pid): every record carrying pid gets status "stopped"
\* and an "ended" stamp, whatever its status was.
mark_stopped(file, pid, t) ==
    LET data == load_registry(file)
    IN  [i \in 1..Len(data) |->
            IF data[i].pid = pid
            THEN Put(Put(data[i], "status", "stopped"), "ended", t)
            ELSE data[i]]

\* The values the last line of the launch output takes: the digits "echo $!"
\* printed, nothing, or text that is no number.
LastLines == {"digits", "", "text"}

\* int() that takes every line for the pid.
int_lenient(line, pid) == pid

\* int(line) for the last line of the launch output: pid when the line is
\* its digits, 0 for the ValueError raised on anything else.
int_last_line(line, pid) == IF line = "digits" THEN pid ELSE 0

\* start_process(cmd): pid is what "echo $!" printed, the pid of a process
\* just started, which no live process of the sandbox has.  io = "exec_fails":
\* stream_exec raises (the sandbox takes no exec).  line is the last line of
\* the launch output; when it is no number int() raises.  Both leave
\* start_process before add_proc.
start_process(cmd, pid, line, io) ==
    /\ Len(registry) < MaxRecords
    /\ now < MaxTime
    /\ pid \notin procsAlive
    /\ IF io # "ok"
       THEN /\ regLast' = [op |-> "start_process", ret |-> "raised",
                           line |-> "none"]
            /\ UNCHANGED <<registry, procsAlive, now, nextLog>>
       ELSE LET p == int_last_line(line, pid)
                rec == [pid |-> p, cmd |-> cmd, log |-> nextLog,
                        started |-> now, status |-> "running"]
            IN  IF p = 0
                THEN /\ regLast' = [op |-> "start_process",
                                    ret |-> "raised", line |-> line]
                     /\ UNCHANGED <<registry, procsAlive, now, nextLog>>
                ELSE /\ registry' = add_proc(registry, rec)
                     /\ procsAlive' = procsAlive \cup {p}
                     /\ now' = now + 1
                     /\ nextLog' = nextLog + 1
                     /\ regLast' = [op |-> "start_process",
                                    ret |-> "started", line |-> line,
                                    rec |-> rec]

\* stop_process(pid), and the endpoint stop_session_process: "kill -15 pid ||
\* true" in the sandbox, then mark_stopped.  dies: the process ends on SIGTERM.
stop_process(pid, dies, io) ==
    /\ now < MaxTime
    /\ IF io # "ok"
       THEN /\ regLast' = [op |-> "stop_process", pid |-> pid,
                           ret |-> "raised"]
            /\ UNCHANGED <<registry, procsAlive, now>>
       ELSE /\ registry' = mark_stopped(registry, pid, now)
            /\ procsAlive' = IF dies THEN procsAlive \ {pid} ELSE procsAlive
            /\ now' = now + 1
            /\ regLast' = [op |-> "stop_process", pid |-> pid,
                           ret |-> "sent SIGTERM", at |-> now]
    /\ UNCHANGED nextLog

\* The first running record of data carrying pid, 0 when there is none.
FirstRunningWithPid(data, pid) ==
    LET hits == {i \in 1..Len(data) :
                     data[i].pid = pid /\ data[i].status = "running"}
    IN  IF hits = {} THEN 0 ELSE CHOOSE i \in hits : \A j \in hits : i <= j

\* The first record of data carrying pid, 0 when there is none.
FirstWithPid(data, pid) ==
    LET hits == {i \in 1..Len(data) : data[i].pid = pid}
    IN  IF hits = {} THEN 0 ELSE CHOOSE i \in hits : \A j \in hits : i <= j

\* tail_log(pid, lines): the log of the first record carrying pid is tailed.
tail_log(pid) ==
    LET data == load_registry(registry)
        i == FirstWithPid(data, pid)
    IN  /\ regLast' = IF i = 0
                      THEN [op |-> "tail_log", pid |-> pid,
                            ret |-> "pid not tracked"]
                      ELSE [op |-> "tail_log", pid |-> pid, ret |-> "log",
                            tailed |-> data[i].log]
        /\ UNCHANGED <<registry, procsAlive, now, nextLog>>

\* list_processes(): the registry as it is.
list_processes ==
    /\ regLast' = [op |-> "list_processes", ret |-> "processes",
                   processes |-> load_registry(registry)]
    /\ UNCHANGED <<registry, procsAlive, now, nextLog>>

\* The sandbox, out of band: a process ends by itself.
ProcessExits(pid) ==
    /\ pid \in procsAlive
    /\ procsAlive' = procsAlive \ {pid}
    /\ regLast' = NoOp
    /\ UNCHANGED <<registry, now, nextLog>>

StartProcess ==
    /\ LoopFree
    /\ \E cmd \in Cmds, pid \in Pids, line \in LastLines,
          io \in {"ok", "exec_fails"} :
           start_process(cmd, pid, line, io)
    /\ UNCHANGED <<sessVars, shellVars, fanVars, execVars, toolVars,
                   writerVars>>

StopProcess ==
    /\ LoopFree
    /\ \E pid \in Pids, dies \in BOOLEAN, io \in {"ok", "exec_fails"} :
           stop_process(pid, dies, io)
    /\ UNCHANGED <<sessVars, shellVars, fanVars, execVars, toolVars,
                   writerVars>>

TailLog ==
    /\ LoopFree
    /\ \E pid \in Pids : tail_log(pid)
    /\ UNCHANGED <<sessVars, shellVars, fanVars, execVars, toolVars,
                   writerVars>>

ListProcesses ==
    /\ LoopFree
    /\ list_processes
    /\ UNCHANGED <<sessVars, shellVars, fanVars, execVars, toolVars,
                   writerVars>>

SandboxStep ==
    /\ \E pid \in Pids : ProcessExits(pid)
    /\ UNCHANGED <<sessVars, shellVars, fanVars, execVars, toolVars,
                   writerVars>>

NextRegistry ==
    \/ StartProcess
    \/ StopProcess
    \/ TailLog
    \/ ListProcesses
    \/ SandboxStep

SpecRegistry == Init /\ [][NextRegistry]_vars

\* ------------------------------------------------- registry: the properties
\* The step is a start_process call that returned its record.
StartStep == regLast'.op = "start_process" /\ regLast'.ret = "started"

\* The step is a stop_process call that reached mark_stopped.
StopStep == regLast'.op = "stop_process" /\ regLast'.ret = "sent SIGTERM"

\* The step is a stop_process(pid) that follows the start_process call which
\* returned pid.
StopAfterStart ==
    /\ StopStep
    /\ regLast.op = "start_process"
    /\ regLast.ret = "started"
    /\ regLast'.pid = regLast.rec.pid

\* rec as stop_process leaves the record it marks at time t.
Stopped(rec, t) == Put(Put(rec, "status", "stopped"), "ended", t)

\* start_process appends exactly one running record with a positive pid and
\* a log path, whatever the registry holds.
StartAppendsOne ==
    StartStep =>
        /\ Len(registry') = Len(registry) + 1
        /\ \A i \in 1..Len(registry) : registry'[i] = registry[i]
        /\ LET rec == registry'[Len(registry')]
           IN  /\ rec = regLast'.rec
               /\ rec.status = "running"
               /\ rec.pid > 0
               /\ "log" \in DOMAIN rec
               /\ "ended" \notin DOMAIN rec

\* C8 as stated: start_process appends exactly one running record with a
\* positive pid and a log path; the stop_process(pid) that follows turns that
\* record to stopped with an end stamp, keeps its pid, cmd, log and started,
\* and leaves every other record unchanged.
C8_StopLeavesEveryOtherRecord ==
    [][/\ StartAppendsOne
       /\ StopAfterStart =>
            LET k == Len(registry)
            IN  /\ Len(registry') = k
                /\ registry'[k] = Stopped(registry[k], now)
                /\ \A i \in 1..(k - 1) : registry'[i] = registry[i]]_vars

\* C8 as amended: start_process appends exactly one running record with a
\* positive pid and a log path; the stop_process(pid) that follows turns that
\* record to stopped with an end stamp, keeps its pid, cmd, log and started,
\* and leaves every record with another pid unchanged (an older record with
\* the same pid is marked stopped too).
C8_StopLeavesOtherPids ==
    [][/\ StartAppendsOne
       /\ StopAfterStart =>
            LET k == Len(registry)
            IN  /\ Len(registry') = k
                /\ registry'[k] = Stopped(registry[k], now)
                /\ \A i \in 1..(k - 1) :
                     /\ registry[i].pid # regLast'.pid
                          => registry'[i] = registry[i]
                     /\ registry[i].pid = regLast'.pid
                          => registry'[i] = Stopped(registry[i], now)]_vars

\* C8's case: a stop_process(pid) right after the start_process that returned
\* pid has marked the new record, beside a running record with another pid.
C8_Witness ==
    /\ regLast.op = "stop_process"
    /\ regLast.ret = "sent SIGTERM"
    /\ Len(registry) >= 2
    /\ LET rec == registry[Len(registry)]
       IN  /\ rec.pid = regLast.pid
           /\ rec.status = "stopped"
           /\ rec.ended = regLast.at
           /\ rec.started = regLast.at - 1
    /\ \E i \in 1..Len(registry) :
         registry[i].pid # regLast.pid /\ registry[i].status = "running"

\* C9 as stated: stop_process(pid) changes no record with another pid, turns
\* every running record with that pid to stopped, and leaves a record with
\* that pid that is already stopped as it is, end stamp included.
C9_StoppedRecordKeepsEnded ==
    [][StopStep =>
         /\ Len(registry') = Len(registry)
         /\ \A i \in 1..Len(registry) :
              IF registry[i].pid # regLast'.pid
              THEN registry'[i] = registry[i]
              ELSE IF registry[i].status = "running"
              THEN registry'[i].status = "stopped"
              ELSE registry'[i] = registry[i]]_vars

\* C10: the registry is append-only under start_process, stop_process,
\* tail_log and list_processes: no record is removed or moved, a record's
\* pid, cmd, log and started never change, and a stopped record never runs
\* again.
C10_RegistryAppendOnly ==
    [][/\ Len(registry') >= Len(registry)
       /\ \A i \in 1..Len(registry) :
            /\ registry'[i].pid = registry[i].pid
            /\ registry'[i].cmd = registry[i].cmd
            /\ registry'[i].log = registry[i].log
            /\ registry'[i].started = registry[i].started
            /\ registry[i].status = "stopped"
                 => registry'[i].status = "stopped"]_vars

\* C10's case: a record was stopped, a later start_process reused its pid and
\* appended after it, and the registry was then read by tail_log.
C10_Witness ==
    /\ Len(registry) >= 2
    /\ registry[1].status = "stopped"
    /\ registry[2].status = "running"
    /\ registry[2].pid = registry[1].pid
    /\ regLast.op = "tail_log"
    /\ regLast.ret = "log"

\* C20: tail_log(pid) for a pid with no record answers "pid not tracked" and
\* tails nothing; for a tracked pid it tails the log of the first record
\* carrying the pid, whatever the record's status; the registry is left as
\* it was.
C20_TailLogByRecord ==
    [][regLast'.op = "tail_log" =>
         LET hits == {i \in 1..Len(registry) :
                          registry[i].pid = regLast'.pid}
         IN  /\ registry' = registry
             /\ IF hits = {}
                THEN /\ regLast'.ret = "pid not tracked"
                     /\ "tailed" \notin DOMAIN regLast'
                ELSE /\ regLast'.ret = "log"
                     /\ \E i \in hits :
                          /\ \A j \in hits : i <= j
                          /\ regLast'.tailed = registry[i].log]_vars

\* C20's case: tail_log returned the log of a record that is marked stopped.
C20_Witness ==
    /\ regLast.op = "tail_log"
    /\ regLast.ret = "log"
    /\ \E i \in 1..Len(registry) :
         /\ registry[i].pid = regLast.pid
         /\ registry[i].status = "stopped"
         /\ registry[i].log = regLast.tailed

\* C21: when the last line of the launch output is empty or no number,
\* start_process raises and the registry is what it was before the call.
C21_NoPidAppendsNothing ==
    [][(regLast'.op = "start_process" /\ regLast'.line \in {"", "text"})
       => /\ regLast'.ret = "raised"
          /\ registry' = registry]_vars

\* C21's case: start_process raised on a line that is no number, while the
\* registry holds a record.
C21_Witness ==
    /\ regLast.op = "start_process"
    /\ regLast.ret = "raised"
    /\ regLast.line \in {"", "text"}
    /\ Len(registry) > 0


\* ========================================================= command execution
\* stream_exec(ctr, cmd, workdir, tty) runs cmd in the container and reads
\* its output stream chunk by chunk.  A chunk is a sequence of bytes; a byte
\* is "a" (an ASCII character), "L" (the lead byte of a two-byte UTF-8
\* character) or "T" (its continuation byte).  With tty the stream yields
\* chunks; without, exec_start demultiplexes and the stream yields pairs
\* (out, err) whose parts are chunks or None (the empty sequence here, which
\* the code's "if out:" treats alike).  Text is a sequence of characters: "a",
\* and "E" for the two-byte character.
Bytes == {"a", "L", "T"}

RECURSIVE SeqsUpTo(_, _)
\* The sequences over S of length 0..n.
SeqsUpTo(S, n) ==
    IF n = 0 THEN {<< >>}
    ELSE LET shorter == SeqsUpTo(S, n - 1)
         IN  shorter \cup {Append(q, x) : q \in shorter, x \in S}

TtyChunks == SeqsUpTo(Bytes, MaxChunkLen) \ {<< >>}

DemuxChunks == {[out |-> o, err |-> r] : o \in SeqsUpTo(Bytes, 1),
                                    r \in SeqsUpTo(Bytes, 1)}
                   \ {[out |-> << >>, err |-> << >>]}

ExitStatuses == {0, 3}

RECURSIVE decode(_)
\* chunk.decode(errors="ignore"): bytes that form no character are dropped.
decode(b) ==
    IF b = << >> THEN << >>
    ELSE IF b[1] = "a" THEN <<"a">> \o decode(Tail(b))
    ELSE IF b[1] = "L" /\ Len(b) >= 2 /\ b[2] = "T"
         THEN <<"E">> \o decode(SubSeq(b, 3, Len(b)))
    ELSE decode(Tail(b))

RECURSIVE join(_)
\* "".join(captured)
join(texts) ==
    IF texts = << >> THEN << >> ELSE Head(texts) \o join(Tail(texts))

\* What one pass of the for loop appends to captured for a chunk: the text
\* of a tty chunk; the text of out, then the text of err, of a pair, each only
\* when the part is not empty.
Pieces(chunk, tty) ==
    IF tty THEN <<decode(chunk)>>
    ELSE (IF chunk.out # << >> THEN <<decode(chunk.out)>> ELSE << >>)
         \o (IF chunk.err # << >> THEN <<decode(chunk.err)>> ELSE << >>)

\* What the same pass writes to sys.stdout: err goes out in red.
Written(chunk, tty) ==
    IF tty THEN <<[text |-> decode(chunk), red |-> FALSE]>>
    ELSE (IF chunk.out # << >>
          THEN <<[text |-> decode(chunk.out), red |-> FALSE]>> ELSE << >>)
         \o (IF chunk.err # << >>
             THEN <<[text |-> decode(chunk.err), red |-> TRUE]>> ELSE << >>)

\* stream_exec, to the head of its for loop: exec_create, exec_start.  chunks
\* is what the command's output arrives as, status the status it exits with.
stream_exec_start ==
    /\ \E tty \in BOOLEAN, status \in ExitStatuses :
         \E chunks \in SeqsUpTo(IF tty THEN TtyChunks ELSE DemuxChunks,
                                MaxChunks) :
             /\ execCall.pc = "idle"
             /\ execLast = NoOp
             /\ execCall' = [pc |-> "reading", tty |-> tty, chunks |-> chunks,
                             status |-> status]
             /\ stream' = chunks
             /\ captured' = << >>
             /\ stdout' = << >>
             /\ exit_code' = [read |-> FALSE]
             /\ UNCHANGED execLast
    /\ UNCHANGED <<sessVars, regVars, shellVars, fanVars, toolVars,
                   writerVars>>

\* One pass of the for loop: the next chunk is read, written to sys.stdout
\* and appended to captured.
stream_exec_chunk ==
    /\ execCall.pc = "reading"
    /\ stream # << >>
    /\ stream' = Tail(stream)
    /\ stdout' = stdout \o Written(Head(stream), execCall.tty)
    /\ captured' = captured \o Pieces(Head(stream), execCall.tty)
    /\ UNCHANGED <<execCall, exit_code, execLast>>
    /\ UNCHANGED <<sessVars, regVars, shellVars, fanVars, toolVars,
                   writerVars>>

\* The stream is exhausted: exec_inspect gives the exit code, which is
\* printed to the console.
stream_exec_inspect ==
    /\ execCall.pc = "reading"
    /\ stream = << >>
    /\ exit_code' = [read |-> TRUE, value |-> execCall.status]
    /\ execCall' = [execCall EXCEPT !.pc = "inspected"]
    /\ UNCHANGED <<stream, captured, stdout, execLast>>
    /\ UNCHANGED <<sessVars, regVars, shellVars, fanVars, toolVars,
                   writerVars>>

\* return "".join(captured): the caller gets a string.
stream_exec_return ==
    /\ execCall.pc = "inspected"
    /\ execLast' = [op |-> "stream_exec", ret |-> join(captured)]
    /\ execCall' = [execCall EXCEPT !.pc = "idle"]
    /\ UNCHANGED <<stream, captured, stdout, exit_code>>
    /\ UNCHANGED <<sessVars, regVars, shellVars, fanVars, toolVars,
                   writerVars>>

NextExec ==
    \/ stream_exec_start
    \/ stream_exec_chunk
    \/ stream_exec_inspect
    \/ stream_exec_return

SpecExec == Init /\ [][NextExec]_vars

\* ------------------------------------------ command execution: the properties
RECURSIVE Flat(_, _)
\* The bytes of a stream in arrival order; of a pair, out before err.
Flat(chunks, tty) ==
    IF chunks = << >> THEN << >>
    ELSE (IF tty THEN Head(chunks) ELSE Head(chunks).out \o Head(chunks).err)
         \o Flat(Tail(chunks), tty)

RECURSIVE WellFormed(_)
\* b is the encoding of a text: decode drops none of its bytes.
WellFormed(b) ==
    IF b = << >> THEN TRUE
    ELSE IF b[1] = "a" THEN WellFormed(Tail(b))
    ELSE IF b[1] = "L" /\ Len(b) >= 2 /\ b[2] = "T"
         THEN WellFormed(SubSeq(b, 3, Len(b)))
    ELSE FALSE

\* The output is text as it stands: the bytes of a tty stream, taken
\* together, encode a text; so does every part of every pair of a
\* demultiplexed stream (out and err being two streams of their own).
Encoded(chunks, tty) ==
    IF tty THEN WellFormed(Flat(chunks, tty))
    ELSE \A i \in 1..Len(chunks) :
             WellFormed(chunks[i].out) /\ WellFormed(chunks[i].err)

\* C22: what stream_exec returns to its caller carries the exit code of the
\* command (3 for a command exiting with status 3, 0 for one exiting
\* normally) next to the captured text, and the exit code is read only once
\* the stream is drained.
C22_ExitCodeReported ==
    /\ exit_code.read => stream = << >>
    /\ execLast.op = "stream_exec"
         => /\ "exit_code" \in DOMAIN execLast
            /\ execLast.exit_code = execCall.status

\* C23: the text stream_exec returns is the text of the output in arrival
\* order, nothing dropped, duplicated or reordered (of a pair, out before
\* err), and every chunk read has been written to the live output before the
\* next one is read.
C23_TextIsWholeStream ==
    /\ Len(stdout) = Len(captured)
    /\ \A i \in 1..Len(captured) : stdout[i].text = captured[i]
    /\ (execLast.op = "stream_exec" /\ Encoded(execCall.chunks, execCall.tty))
         => execLast.ret = decode(Flat(execCall.chunks, execCall.tty))

\* ==================================================================== tools
\* The agent's tools are module-level functions; a task binds them to its
\* session by setting the attributes _workdir and _container on each of them
\* (tool_workdir, tool_container here: the loop that sets them has no await,
\* so all tools carry the same pair).  The endpoints take the workspace and
\* the container from get_session.  A path on the host is the sequence of its
\* components from the file-system root; a path argument is a record
\* [abs, parts], abs for a leading "/".
BaseDirectory == <<"agent_workspaces">>

\* BASE_DIRECTORY / f"session_{session_id}"
Workdir(sid) == BaseDirectory \o <<sid>>

PathArgs ==
    {[abs |-> a, parts |-> q] :
        a \in BOOLEAN, q \in SeqsUpTo({"..", "f"}, MaxPathLen) \ {<< >>}}

RECURSIVE Walk(_, _)
\* Where the operating system arrives from directory at along parts.
Walk(at, parts) ==
    IF parts = << >> THEN at
    ELSE IF Head(parts) = ".."
         THEN Walk(IF at = << >> THEN at ELSE SubSeq(at, 1, Len(at) - 1),
                   Tail(parts))
    ELSE Walk(Append(at, Head(parts)), Tail(parts))

\* workdir / path: an absolute path replaces workdir; ".." is followed.
join_path(workdir, path) ==
    Walk(IF path.abs THEN << >> ELSE workdir, path.parts)

IsPrefix(p, q) == Len(p) <= Len(q) /\ SubSeq(q, 1, Len(p)) = p

\* p is a directory: the root, the base directory, a workspace, or a
\* directory made for a file.
IsDir(p) ==
    \/ \E sid \in SessionIds : IsPrefix(p, Workdir(sid))
    \/ \E f \in fs : IsPrefix(p, f) /\ p # f

\* A file lies on the way to p, so p can be neither made nor opened.
Blocked(p) == \E f \in fs : IsPrefix(f, p) /\ f # p

\* fp.parent.mkdir(parents=True, exist_ok=True); fp.write_text(content), and
\* open(fp, "a"): what the call leaves in toolLast and in fs.
write_at(op, workdir, path, who) ==
    LET fp == join_path(workdir, path)
    IN  IF IsDir(fp) \/ Blocked(fp)
        THEN /\ toolLast' = [op |-> op, who |-> who, root |-> workdir,
                             ret |-> "raised"]
             /\ UNCHANGED fs
        ELSE /\ fp \in fs \/ Cardinality(fs) < MaxFiles
             /\ fs' = fs \cup {fp}
             /\ toolLast' = [op |-> op, who |-> who, root |-> workdir,
                             ret |-> "ok", target |-> fp]

\* fp.read_text() when fp exists.
read_at(op, workdir, path, who) ==
    LET fp == join_path(workdir, path)
    IN  /\ toolLast' = IF fp \in fs
                       THEN [op |-> op, who |-> who, root |-> workdir,
                             ret |-> "content", target |-> fp]
                       ELSE IF IsDir(fp)
                       THEN [op |-> op, who |-> who, root |-> workdir,
                             ret |-> "raised"]
                       ELSE [op |-> op, who |-> who, root |-> workdir,
                             ret |-> "not found"]
        /\ UNCHANGED fs

\* A call made by the tool of a running task: who it runs for, and what the
\* tools are bound to when it runs.
ByTask(sid) ==
    [task |-> sid, workdir |-> tool_workdir, container |-> tool_container]

\* A call made by an endpoint, with what get_session returned.
ByEndpoint(sid) ==
    [session |-> sid, workdir |-> Workdir(sid),
     container |-> ACTIVE_SESSIONS[sid].container_id]

\* run_task_with_websocket(session_id, task), to the start of the agent run:
\* get_session, the task_started message, the tools bound.
run_task_start ==
    /\ LoopFree
    /\ \E sid \in SessionIds :
         /\ sid \in DOMAIN ACTIVE_SESSIONS
         /\ sid \notin tasks
         /\ tasks' = tasks \cup {sid}
         /\ tool_workdir' = Workdir(sid)
         /\ tool_container' = ACTIVE_SESSIONS[sid].container_id
         /\ toolLast' = [op |-> "run_task", session |-> sid]
         /\ UNCHANGED fs
    /\ UNCHANGED <<sessVars, regVars, shellVars, fanVars, execVars,
                   writerVars>>

\* The agent run ends: conversation saved, task_completed sent.
run_task_end ==
    /\ LoopFree
    /\ \E sid \in SessionIds :
         /\ sid \in tasks
         /\ tasks' = tasks \ {sid}
         /\ toolLast' = [op |-> "task_completed", session |-> sid]
         /\ UNCHANGED <<tool_workdir, tool_container, fs>>
    /\ UNCHANGED <<sessVars, regVars, shellVars, fanVars, execVars,
                   writerVars>>

\* The tools write_file and append_file, called by the task of sid.
write_file ==
    /\ LoopFree
    /\ \E sid \in SessionIds, path \in PathArgs :
         /\ sid \in tasks
         /\ write_at("write_file", tool_workdir, path, ByTask(sid))
         /\ UNCHANGED <<tool_workdir, tool_container, tasks>>
    /\ UNCHANGED <<sessVars, regVars, shellVars, fanVars, execVars,
                   writerVars>>

append_file ==
    /\ LoopFree
    /\ \E sid \in SessionIds, path \in PathArgs :
         /\ sid \in tasks
         /\ write_at("append_file", tool_workdir, path, ByTask(sid))
         /\ UNCHANGED <<tool_workdir, tool_container, tasks>>
    /\ UNCHANGED <<sessVars, regVars, shellVars, fanVars, execVars,
                   writerVars>>

\* The tool read_file.
read_file ==
    /\ LoopFree
    /\ \E sid \in SessionIds, path \in PathArgs :
         /\ sid \in tasks
         /\ read_at("read_file", tool_workdir, path, ByTask(sid))
         /\ UNCHANGED <<tool_workdir, tool_container, tasks>>
    /\ UNCHANGED <<sessVars, regVars, shellVars, fanVars, execVars,
                   writerVars>>

\* The tool run_shell: stream_exec in the container the tools are bound to.
run_shell ==
    /\ LoopFree
    /\ \E sid \in SessionIds :
         /\ sid \in tasks
         /\ toolLast' = [op |-> "run_shell", who |-> ByTask(sid),
                         ret |-> "output"]
         /\ UNCHANGED <<tool_workdir, tool_container, tasks, fs>>
    /\ UNCHANGED <<sessVars, regVars, shellVars, fanVars, execVars,
                   writerVars>>

\* GET and POST /api/sessions/{session_id}/files/content.
get_file_content ==
    /\ LoopFree
    /\ \E sid \in SessionIds, path \in PathArgs :
         /\ sid \in DOMAIN ACTIVE_SESSIONS
         /\ read_at("get_file_content", Workdir(sid), path, ByEndpoint(sid))
         /\ UNCHANGED <<tool_workdir, tool_container, tasks>>
    /\ UNCHANGED <<sessVars, regVars, shellVars, fanVars, execVars,
                   writerVars>>

write_file_content ==
    /\ LoopFree
    /\ \E sid \in SessionIds, path \in PathArgs :
         /\ sid \in DOMAIN ACTIVE_SESSIONS
         /\ write_at("write_file_content", Workdir(sid), path, ByEndpoint(sid))
         /\ UNCHANGED <<tool_workdir, tool_container, tasks>>
    /\ UNCHANGED <<sessVars, regVars, shellVars, fanVars, execVars,
                   writerVars>>

\* The numbers of entries a directory has, of files a search pattern
\* matches, of lines grep prints.
MatchCounts == {0, 20, 21, 50, 51, 80}

\* The numbers in "head -50", files[:50] and "head -20", matches[:20].
FilesCap == 50

GrepCap == 20

Lines(n) == [i \in 1..n |-> i]

\* lines[:cap]
Slice(lines, cap) == SubSeq(lines, 1, IF Len(lines) < cap THEN Len(lines) ELSE cap)

\* list_directory(path): one item per entry of the directory, sorted.
list_directory ==
    /\ LoopFree
    /\ \E sid \in SessionIds, n \in MatchCounts :
         /\ sid \in tasks
         /\ toolLast' = [op |-> "list_directory", who |-> ByTask(sid),
                         found |-> n, returned |-> Len(Lines(n))]
         /\ UNCHANGED <<tool_workdir, tool_container, tasks, fs>>
    /\ UNCHANGED <<sessVars, regVars, shellVars, fanVars, execVars,
                   writerVars>>

\* search_files(pattern, path, file_types): the lines of the command's
\* output, cut at 50.
search_files ==
    /\ LoopFree
    /\ \E sid \in SessionIds, n \in MatchCounts :
         /\ sid \in tasks
         /\ toolLast' = [op |-> "search_files", who |-> ByTask(sid),
                         found |-> n, returned |-> Len(Slice(Lines(n), FilesCap))]
         /\ UNCHANGED <<tool_workdir, tool_container, tasks, fs>>
    /\ UNCHANGED <<sessVars, regVars, shellVars, fanVars, execVars,
                   writerVars>>

\* grep_search(pattern, path, file_types): the lines that parse as
\* file:line:content, cut at 20.
grep_search ==
    /\ LoopFree
    /\ \E sid \in SessionIds, n \in MatchCounts :
         /\ sid \in tasks
         /\ toolLast' = [op |-> "grep_search", who |-> ByTask(sid),
                         found |-> n, returned |-> Len(Slice(Lines(n), GrepCap))]
         /\ UNCHANGED <<tool_workdir, tool_container, tasks, fs>>
    /\ UNCHANGED <<sessVars, regVars, shellVars, fanVars, execVars,
                   writerVars>>

\* POST /api/sessions/{session_id}/search/files and .../search/grep.
search_files_endpoint ==
    /\ LoopFree
    /\ \E sid \in SessionIds, n \in MatchCounts :
         /\ sid \in DOMAIN ACTIVE_SESSIONS
         /\ toolLast' = [op |-> "search_files_endpoint", who |-> ByEndpoint(sid),
                         found |-> n, returned |-> Len(Slice(Lines(n), FilesCap))]
         /\ UNCHANGED <<tool_workdir, tool_container, tasks, fs>>
    /\ UNCHANGED <<sessVars, regVars, shellVars, fanVars, execVars,
                   writerVars>>

grep_search_endpoint ==
    /\ LoopFree
    /\ \E sid \in SessionIds, n \in MatchCounts :
         /\ sid \in DOMAIN ACTIVE_SESSIONS
         /\ toolLast' = [op |-> "grep_search_endpoint", who |-> ByEndpoint(sid),
                         found |-> n, returned |-> Len(Slice(Lines(n), GrepCap))]
         /\ UNCHANGED <<tool_workdir, tool_container, tasks, fs>>
    /\ UNCHANGED <<sessVars, regVars, shellVars, fanVars, execVars,
                   writerVars>>

\* The sessions the tasks and the endpoint calls of this specification are
\* for.
SessionsForTools ==
    /\ LoopFree
    /\ \E sid \in SessionIds :
         /\ sid \notin DOMAIN ACTIVE_SESSIONS
         /\ create_session("t1", sid, "ok")
    /\ UNCHANGED <<regVars, shellVars, fanVars, execVars, toolVars,
                   writerVars>>

NextTools ==
    \/ SessionsForTools
    \/ run_task_start
    \/ run_task_end
    \/ write_file
    \/ append_file
    \/ read_file
    \/ run_shell
    \/ get_file_content
    \/ write_file_content
    \/ list_directory
    \/ search_files
    \/ grep_search
    \/ search_files_endpoint
    \/ grep_search_endpoint

SpecTools == Init /\ [][NextTools]_vars

\* ---------------------------------------------------- tools: the properties
\* C24: a file that write_file, append_file, read_file or a file endpoint has
\* read or written lies under the workspace the call was made with, whatever
\* the path argument: nothing outside the workspace is read or written.
C24_FilesStayInWorkspace ==
    (toolLast.op \in {"write_file", "append_file", "read_file",
                     "get_file_content", "write_file_content"}
     /\ toolLast.ret \in {"ok", "content"})
    => /\ IsPrefix(toolLast.root, toolLast.target)
       /\ toolLast.target # toolLast.root

\* C26: list_directory returns at most 50 items, search_files at most 50
\* matches and grep_search at most 20, however many there are to return.
C26_ResultsAreCapped ==
    /\ toolLast.op \in {"list_directory", "search_files",
                        "search_files_endpoint"}
         => toolLast.returned <= 50
    /\ toolLast.op \in {"grep_search", "grep_search_endpoint"}
         => toolLast.returned <= 20

\* C27: a tool call made by the task of a session works on the workspace and
\* the container of that session, whatever other tasks have started since.
C27_ToolsServeTheirTask ==
    (toolLast.op \notin {"none", "run_task", "task_completed"}
     /\ "task" \in DOMAIN toolLast.who)
    => /\ toolLast.who.workdir = Workdir(toolLast.who.task)
       /\ toolLast.who.container
            = ACTIVE_SESSIONS[toolLast.who.task].container_id

\* ================================================================== fan-out
\* manager.active_connections maps a session id to the list of the
\* connections subscribed to it.  subs[k] is one connection to
\* /ws/{session_id} and the websocket_endpoint call serving it:
\*   session_id  the session of the path
\*   stage       "accepting" (suspended in websocket.accept), "open" (in the
\*               receive loop), "ended"
\*   how         how the handler ended: "rejected", "error" (the
\*               confirmation could not be sent), "disconnected", "raised"
\*               (manager.disconnect raised out of the handler)
\*   ws          the remote end: "open" | "closed"
\*   inbox       the text messages of the remote end not yet received
\*   echoes      the data of the echo messages the handler has sent
\* bcast is the send_message call in progress:
\*   sid, idx    the session and the position the for loop reads next
\*   detached    the session's entry was deleted during the call: the loop
\*               still holds the list object, now empty
\*   tried, disconnected   the connections sent to, and those whose send raised
\*   prior, before         the session's list and the whole map at the call
\*   mixed       a connect or a disconnect ran while the call was suspended

Range(l) == {l[i] : i \in 1..Len(l)}

\* list.remove(x): the first occurrence goes; x is in l.
RemoveFirst(l, x) ==
    LET i == CHOOSE i \in 1..Len(l) :
                 l[i] = x /\ \A j \in 1..(i - 1) : l[j] # x
    IN  [j \in 1..(Len(l) - 1) |-> IF j < i THEN l[j] ELSE l[j + 1]]

Subscribers(m, sid) == IF sid \in DOMAIN m THEN Range(m[sid]) ELSE {}

\* ConnectionManager.connect, after the accept.
connect(m, conn, sid) ==
    IF sid \in DOMAIN m THEN [m EXCEPT ![sid] = Append(@, conn)]
                        ELSE Put(m, sid, <<conn>>)

\* ConnectionManager.disconnect(websocket, session_id): list.remove raises
\* ValueError when the connection is not in the session's list; an emptied
\* list is deleted from the map.
disconnect(m, conn, sid) ==
    IF sid \notin DOMAIN m THEN [map |-> m, raised |-> FALSE]
    ELSE IF conn \notin Range(m[sid]) THEN [map |-> m, raised |-> TRUE]
    ELSE LET l == RemoveFirst(m[sid], conn)
         IN  [map |-> IF l = << >> THEN Del(m, sid) ELSE Put(m, sid, l),
              raised |-> FALSE]

\* What a connect or a disconnect that runs during a send_message call does
\* to the call: m is the map it leaves.
Mixed(b, m) ==
    IF b = NoOp THEN b
    ELSE [b EXCEPT !.mixed = TRUE,
                   !.detached = @ \/ b.sid \notin DOMAIN m]

\* A websocket_endpoint that accepts a connection for any session id.
websocket_open_any(sid) ==
    /\ Len(subs) < MaxSubs
    /\ subs' = Append(subs,
           [session_id |-> sid, stage |-> "accepting", how |-> "",
            ws |-> "open", inbox |-> << >>, echoes |-> << >>])
    /\ fanLast' = [op |-> "websocket_endpoint", ret |-> "accepting"]
    /\ UNCHANGED <<active_connections, bcast, nBroadcasts>>

\* websocket_endpoint, to its first suspension: get_session_by_id looks the
\* id up in ACTIVE_SESSIONS; an unknown id closes the connection.
websocket_open(sid) ==
    LET known == sid \in DOMAIN ACTIVE_SESSIONS
    IN  /\ Len(subs) < MaxSubs
        /\ subs' = Append(subs,
               [session_id |-> sid,
                stage |-> IF known THEN "accepting" ELSE "ended",
                how |-> IF known THEN "" ELSE "rejected",
                ws |-> IF known THEN "open" ELSE "closed",
                inbox |-> << >>, echoes |-> << >>])
        /\ fanLast' = [op |-> "websocket_endpoint",
                       ret |-> IF known THEN "accepting" ELSE "rejected"]
        /\ UNCHANGED <<active_connections, bcast, nBroadcasts>>

\* websocket_endpoint from the accept to the receive loop: manager.connect
\* appends the connection, the confirmation is sent.  When the remote end is
\* gone the confirmation raises and the handler's except branch calls
\* manager.disconnect, which removes the connection just appended.
websocket_accept(k) ==
    /\ subs[k].stage = "accepting"
    /\ IF subs[k].ws = "closed"
       THEN /\ subs' = [subs EXCEPT ![k].stage = "ended", ![k].how = "error"]
            /\ UNCHANGED <<active_connections, bcast>>
       ELSE /\ subs' = [subs EXCEPT ![k].stage = "open"]
            /\ active_connections' =
                   connect(active_connections, k, subs[k].session_id)
            /\ bcast' = Mixed(bcast, active_connections')
    /\ fanLast' = [op |-> "websocket_endpoint", ret |-> subs'[k].stage]
    /\ UNCHANGED nBroadcasts

\* The receive loop of websocket_endpoint gets the disconnect:
\* WebSocketDisconnect, manager.disconnect.
websocket_disconnect(k) ==
    LET d == disconnect(active_connections, k, subs[k].session_id)
    IN  /\ subs[k].stage = "open"
        /\ subs[k].ws = "closed"
        /\ active_connections' = d.map
        /\ subs' = [subs EXCEPT ![k].stage = "ended",
                                ![k].how = IF d.raised THEN "raised"
                                           ELSE "disconnected"]
        /\ bcast' = Mixed(bcast, d.map)
        /\ fanLast' = [op |-> "disconnect", conn |-> k,
                       ret |-> subs'[k].how]
        /\ UNCHANGED nBroadcasts

\* The remote end of a subscribed connection goes away.
SubscriberCloses(k) ==
    /\ subs[k].ws = "open"
    /\ subs' = [subs EXCEPT ![k].ws = "closed"]
    /\ fanLast' = NoOp
    /\ UNCHANGED <<active_connections, bcast, nBroadcasts>>

\* The list object send_message's for loop iterates.
Iterated(b) == IF b.detached THEN << >> ELSE active_connections[b.sid]

\* One pass of the loop: send_json to the connection at the loop's position;
\* a send that raises puts the connection on the disconnected list.
Attempt(b) ==
    LET conn == Iterated(b)[b.idx]
    IN  [b EXCEPT !.idx = @ + 1,
                  !.tried = Append(@, conn),
                  !.disconnected = IF subs[conn].ws = "open"
                                   THEN @ ELSE Append(@, conn)]

\* The clean-up loop of send_message: every connection of ds is removed from
\* active_connections[sid], looked up anew each time; a deleted entry raises
\* KeyError and a connection no longer listed raises ValueError.
RECURSIVE Prune(_, _, _)
Prune(m, sid, ds) ==
    IF ds = << >> THEN [map |-> m, raised |-> FALSE]
    ELSE IF sid \notin DOMAIN m \/ Head(ds) \notin Range(m[sid])
    THEN [map |-> m, raised |-> TRUE]
    ELSE Prune([m EXCEPT ![sid] = RemoveFirst(@, Head(ds))], sid, Tail(ds))

\* The end of send_message after the loop of call b.
Finish(b) ==
    LET pr == Prune(active_connections, b.sid, b.disconnected)
    IN  /\ active_connections' = pr.map
        /\ bcast' = NoOp
        /\ fanLast' = [op |-> "send_message", sid |-> b.sid,
                       ret |-> IF pr.raised THEN "raised" ELSE "returned",
                       tried |-> b.tried, failed |-> b.disconnected,
                       prior |-> b.prior, before |-> b.before,
                       mixed |-> b.mixed]

\* send_message(message, session_id), to its first suspension: nothing is
\* done for a session with no entry; else the loop starts and suspends in the
\* first send_json, or ends at once on an empty list.
send_message_start(sid) ==
    LET b == [op |-> "send_message", sid |-> sid, idx |-> 1,
              detached |-> FALSE, tried |-> << >>, disconnected |-> << >>,
              prior |-> IF sid \in DOMAIN active_connections
                        THEN active_connections[sid] ELSE << >>,
              before |-> active_connections, mixed |-> FALSE]
    IN  /\ bcast = NoOp
        /\ nBroadcasts < MaxBroadcasts
        /\ nBroadcasts' = nBroadcasts + 1
        /\ IF b.prior = << >>
           THEN Finish(b)
           ELSE /\ bcast' = Attempt(b)
                /\ fanLast' = NoOp
                /\ UNCHANGED active_connections
        /\ UNCHANGED subs

\* send_message resumed from a send_json: the next pass of the loop, or the
\* clean-up when the list has no element at the loop's position.
send_message_resume ==
    /\ bcast # NoOp
    /\ IF bcast.idx <= Len(Iterated(bcast))
       THEN /\ bcast' = Attempt(bcast)
            /\ fanLast' = NoOp
            /\ UNCHANGED active_connections
       ELSE Finish(bcast)
    /\ UNCHANGED <<subs, nBroadcasts>>

SubIds == 1..Len(subs)

WebsocketOpen ==
    /\ LoopFree
    /\ \E sid \in SessionIds : websocket_open(sid)
    /\ UNCHANGED <<sessVars, regVars, shellVars, execVars, toolVars,
                   writerVars>>

WebsocketAccept ==
    /\ LoopFree
    /\ \E k \in SubIds : websocket_accept(k)
    /\ UNCHANGED <<sessVars, regVars, shellVars, execVars, toolVars,
                   writerVars>>

WebsocketDisconnect ==
    /\ LoopFree
    /\ \E k \in SubIds : websocket_disconnect(k)
    /\ UNCHANGED <<sessVars, regVars, shellVars, execVars, toolVars,
                   writerVars>>

SubscriberStep ==
    /\ \E k \in SubIds : SubscriberCloses(k)
    /\ UNCHANGED <<sessVars, regVars, shellVars, execVars, toolVars,
                   writerVars>>

SendMessageStart ==
    /\ LoopFree
    /\ \E sid \in SessionIds : send_message_start(sid)
    /\ UNCHANGED <<sessVars, regVars, shellVars, execVars, toolVars,
                   writerVars>>

SendMessageResume ==
    /\ LoopFree
    /\ send_message_resume
    /\ UNCHANGED <<sessVars, regVars, shellVars, execVars, toolVars,
                   writerVars>>

\* The sessions the connections of this specification subscribe to.
SessionsForSubscribers ==
    /\ LoopFree
    /\ \E sid \in SessionIds :
         /\ sid \notin DOMAIN ACTIVE_SESSIONS
         /\ create_session("t1", sid, "ok")
    /\ UNCHANGED <<regVars, shellVars, fanVars, execVars, toolVars,
                   writerVars>>

NextFanout ==
    \/ SessionsForSubscribers
    \/ WebsocketOpen
    \/ WebsocketAccept
    \/ WebsocketDisconnect
    \/ SubscriberStep
    \/ SendMessageStart
    \/ SendMessageResume

SpecFanout == Init /\ [][NextFanout]_vars

\* ------------------------------------------------- fan-out: the receive loop
\* The remote end of a subscribed connection sends a text message.
subscriber_sends ==
    /\ \E k \in SubIds, text \in {"x", "y"} :
         /\ subs[k].stage = "open"
         /\ subs[k].ws = "open"
         /\ Len(subs[k].inbox) + Len(subs[k].echoes) < MaxTexts
         /\ subs' = [subs EXCEPT ![k].inbox = Append(@, text)]
         /\ fanLast' = NoOp
         /\ UNCHANGED <<active_connections, bcast, nBroadcasts>>
    /\ UNCHANGED <<sessVars, regVars, shellVars, execVars, toolVars,
                   writerVars>>

\* One pass of websocket_endpoint's receive loop: receive_text() returns the
\* oldest message and send_json answers it with an echo of its data.  When
\* the remote end is gone the send raises, and the handler's except branch
\* calls manager.disconnect and ends.
websocket_echo ==
    /\ LoopFree
    /\ \E k \in SubIds :
         LET data == Head(subs[k].inbox)
             d == disconnect(active_connections, k, subs[k].session_id)
         IN  /\ subs[k].stage = "open"
             /\ subs[k].inbox # << >>
             /\ IF subs[k].ws = "open"
                THEN /\ subs' = [subs EXCEPT ![k].inbox = Tail(@),
                                             ![k].echoes = Append(@, data)]
                     /\ fanLast' = [op |-> "echo", conn |-> k,
                                    data |-> data]
                     /\ UNCHANGED <<active_connections, bcast>>
                ELSE /\ subs' = [subs EXCEPT ![k].inbox = Tail(@),
                                             ![k].stage = "ended",
                                             ![k].how = IF d.raised
                                                        THEN "raised"
                                                        ELSE "error"]
                     /\ active_connections' = d.map
                     /\ bcast' = Mixed(bcast, d.map)
                     /\ fanLast' = [op |-> "disconnect", conn |-> k,
                                    ret |-> IF d.raised THEN "raised"
                                            ELSE "disconnected"]
             /\ UNCHANGED nBroadcasts
    /\ UNCHANGED <<sessVars, regVars, shellVars, execVars, toolVars,
                   writerVars>>

NextEcho ==
    \/ SessionsForSubscribers
    \/ WebsocketOpen
    \/ WebsocketAccept
    \/ WebsocketDisconnect
    \/ SubscriberStep
    \/ subscriber_sends
    \/ websocket_echo

SpecEcho == Init /\ [][NextEcho]_vars

\* ----------------------------------------------------- fan-out: the properties
\* C11: send_message(message, session_id) attempts a send to every connection
\* subscribed to the session, never raises to its caller, and leaves as the
\* session's subscribers the prior ones minus exactly those whose send
\* failed, the subscribers of the other sessions unchanged.  A connection
\* counts as subscribed when it is in the list at the call and still there at
\* the end; the two equalities are asked of the calls during which no connect
\* or disconnect ran.
C11_BroadcastPrunesFailed ==
    [][fanLast'.op = "send_message" =>
         LET r == fanLast'
         IN  /\ r.ret = "returned"
             /\ \A c \in Range(r.prior) :
                  c \in Subscribers(active_connections, r.sid)
                      => c \in Range(r.tried)
             /\ ~r.mixed =>
                  /\ Subscribers(active_connections', r.sid)
                         = Range(r.prior) \ Range(r.failed)
                  /\ \A t \in SessionIds \ {r.sid} :
                         Subscribers(active_connections', t)
                             = Subscribers(r.before, t)]_vars

\* C29: a send_message call during which a connect or a disconnect on the
\* session ran at a send suspension point returns without raising and has
\* attempted every connection that was subscribed from its start to its end;
\* and a disconnect that runs while a call is suspended does not raise.
C29_InterleavedBroadcastIsSafe ==
    /\ (fanLast.op = "send_message" /\ fanLast.mixed)
         => /\ fanLast.ret = "returned"
            /\ \A c \in Range(fanLast.prior) :
                   c \in Subscribers(active_connections, fanLast.sid)
                   => c \in Range(fanLast.tried)
    /\ (fanLast.op = "disconnect" /\ bcast # NoOp)
         => fanLast.ret # "raised"

\* C35: disconnect(connection, session_id) completes without raising after
\* any sequence of connect, send_message and disconnect, also when a failed
\* broadcast has already pruned the connection.
C35_DisconnectNeverRaises ==
    fanLast.op = "disconnect" => fanLast.ret = "disconnected"

save_registry_merging(file, data) ==
    data \o SelectSeq(file, LAMBDA p :
                \A i \in 1..Len(data) : data[i].log # p.log)

\* save_registry(workdir, data): the file is rewritten with data.
save_registry(file, data) == data

\* add_proc(workdir, record), to its save: load and append.
add_proc_load ==
    /\ \E w \in WriterIds, pid \in Pids :
         LET rec == [pid |-> pid, cmd |-> "sleep", log |-> nextLog,
                     started |-> now, status |-> "running"]
         IN  /\ writers[w].pc = "idle"
             /\ Len(registry) + Cardinality({v \in WriterIds :
                                                writers[v].pc = "loaded"})
                    < MaxRecords
             /\ now < MaxTime
             /\ writers' = [writers EXCEPT ![w] =
                    [pc |-> "loaded",
                     mut |-> [kind |-> "add_proc", by |-> w, log |-> nextLog],
                     base |-> load_registry(registry),
                     data |-> add_proc(registry, rec)]]
             /\ now' = now + 1
             /\ nextLog' = nextLog + 1
             /\ writeLast' = NoOp
             /\ UNCHANGED <<registry, committed>>
    /\ UNCHANGED <<sessVars, procsAlive, regLast, peer_sessions, shellVars,
                   fanVars, execVars, toolVars>>

\* mark_stopped(workdir, pid), to its save: load and stamp.
mark_stopped_load ==
    /\ \E w \in WriterIds, pid \in Pids :
         /\ writers[w].pc = "idle"
         /\ now < MaxTime
         /\ \E i \in 1..Len(registry) :
                registry[i].pid = pid /\ registry[i].status = "running"
         /\ writers' = [writers EXCEPT ![w] =
                [pc |-> "loaded",
                 mut |-> [kind |-> "mark_stopped", by |-> w, pid |-> pid,
                          at |-> now],
                 base |-> load_registry(registry),
                 data |-> mark_stopped(registry, pid, now)]]
         /\ now' = now + 1
         /\ writeLast' = NoOp
         /\ UNCHANGED <<registry, nextLog, committed>>
    /\ UNCHANGED <<sessVars, procsAlive, regLast, peer_sessions, shellVars,
                   fanVars, execVars, toolVars>>

\* The save that ends add_proc and mark_stopped.
writer_saves ==
    /\ \E w \in WriterIds :
         /\ writers[w].pc = "loaded"
         /\ registry' = save_registry(registry, writers[w].data)
         /\ committed' = Append(committed, writers[w].mut)
         /\ writers' = [writers EXCEPT ![w] = [pc |-> "idle"]]
         /\ writeLast' = [op |-> "save_registry", by |-> w,
                          base |-> writers[w].base, over |-> registry]
         /\ UNCHANGED <<now, nextLog>>
    /\ UNCHANGED <<sessVars, procsAlive, regLast, peer_sessions, shellVars,
                   fanVars, execVars, toolVars>>

\* create_session in the second process: the record goes into that
\* process's table, which save_sessions writes to the shared file.
peer_create_session ==
    /\ \E sid \in SessionIds :
         LET rec == [container_id |-> nextContainer, last_task |-> "t2",
                     conversation_history |-> << >>, status |-> "active"]
             sv == save_sessions(Put(peer_sessions, sid, rec), SESSIONS_FILE,
                                 fileExists, "ok")
         IN  /\ nextContainer <= MaxContainers
             /\ sid \notin DOMAIN peer_sessions
             /\ sid \notin DOMAIN ACTIVE_SESSIONS
             /\ peer_sessions' = Put(peer_sessions, sid, rec)
             /\ containers' = Put(containers, nextContainer, "running")
             /\ nextContainer' = nextContainer + 1
             /\ workdirs' = mkdir(workdirs, sid)
             /\ SESSIONS_FILE' = sv.file
             /\ fileExists' = sv.exists
             /\ writeLast' = [op |-> "save_sessions", by |-> "peer",
                              over |-> FileData]
             /\ UNCHANGED <<ACTIVE_SESSIONS, sessLast>>
    /\ UNCHANGED <<regVars, writers, committed, shellVars, fanVars, execVars,
                   toolVars>>

\* create_session in the server.
server_create_session ==
    /\ \E sid \in SessionIds :
         /\ sid \notin DOMAIN ACTIVE_SESSIONS
         /\ sid \notin DOMAIN peer_sessions
         /\ create_session("t1", sid, "ok")
         /\ writeLast' = [op |-> "save_sessions", by |-> "server",
                          over |-> FileData]
         /\ UNCHANGED peer_sessions
    /\ UNCHANGED <<regVars, writers, committed, shellVars, fanVars, execVars,
                   toolVars>>

NextWriters ==
    \/ add_proc_load
    \/ mark_stopped_load
    \/ writer_saves
    \/ peer_create_session
    \/ server_create_session

SpecWriters == Init /\ [][NextWriters]_vars

\* ------------------------------------------- concurrent writers: the properties
\* The records of registry file f that list l does not hold.
Gained(f, l) == {i \in 1..Len(f) : f[i] \notin Range(l)}

\* The mutation m shows in registry file f.
Shows(m, f) ==
    IF m.kind = "add_proc"
    THEN \E i \in 1..Len(f) : f[i].log = m.log
    ELSE \A i \in 1..Len(f) : f[i].pid = m.pid => f[i].status = "stopped"

\* C30: the stores are not safe under concurrent writers.  A writer that
\* saves after the file changed since its load rewrites the file from what
\* it loaded, so every record the file had gained or changed in between is
\* gone from the persisted file; likewise a process that saves its session
\* table drops the sessions another process persisted and it never loaded.
C30_StaleSaveDropsTheOthers ==
    [][/\ writeLast'.op = "save_registry"
          => \A i \in Gained(writeLast'.over, writeLast'.base) :
                 writeLast'.over[i] \notin Range(registry')
       /\ (writeLast'.op = "save_sessions" /\ writeLast'.by = "peer")
          => \A s \in DOMAIN writeLast'.over \ DOMAIN peer_sessions :
                 s \notin DOMAIN FileData'
       /\ (writeLast'.op = "save_sessions" /\ writeLast'.by = "server")
          => \A s \in DOMAIN writeLast'.over \ DOMAIN ACTIVE_SESSIONS :
                 s \notin DOMAIN FileData']_vars

\* C30's case: two writers have each completed a mutation of the registry and
\* the mutation of one does not show in the file; and the server and the
\* second process have each created a session and the file lacks one.
C30_Witness ==
    /\ \A w \in WriterIds : writers[w].pc = "idle"
    /\ \E i, j \in 1..Len(committed) :
           /\ committed[i].by # committed[j].by
           /\ ~Shows(committed[i], registry)
    /\ DOMAIN ACTIVE_SESSIONS # {}
    /\ DOMAIN peer_sessions # {}
    /\ \E s \in DOMAIN ACTIVE_SESSIONS \cup DOMAIN peer_sessions :
           s \notin DOMAIN FileData

=============================================================================
